---------------------------- MODULE Spec2Model ----------------------------
(***************************************************************************)
(* A model of the VC4C middle-end core: Method (stack layout, blocks,      *)
(* locals, CFG cache), the dead-code/move/bit-operation eliminators, the   *)
(* constant folder and the cross-work-item memory dependency analysis.     *)
(*                                                                         *)
(* The module holds several specifications over one set of variables; each *)
(* specification drives one part of the program and leaves the variables   *)
(* of the other parts at their initial values.                             *)
(***************************************************************************)
EXTENDS Integers, Sequences, FiniteSets, TLC

VARIABLES
    \* ---- Method: stack allocations (Method.cpp) ----
    stackAllocations,   \* Method::stackAllocations, in iteration order
    globalDataSize,     \* module.getGlobalDataOffset(nullptr): end of the global data segment
    stackPc,            \* "open": allocations may be added; "done": calculateStackOffsets has run
    stackSize,          \* the value calculateStackSize has returned for the offsets, once asked
    \* ---- mapMemoryAccess (MemoryAccess.cpp) ----
    memInfos,           \* the memory objects with their MemoryInfo, as determined for the Method
    methodFlags,        \* Method::flags
    memPc,              \* "open": objects are being recorded; "mapped": mapMemoryAccess has run
    \* ---- Method: instructions and Locals (Method.cpp, Eliminator.cpp) ----
    instructions,       \* the instructions of the Method's basic block, label first
    localUsers,         \* the LocalUse records of all Locals: who reads/writes which Local
    uniformsUsed,       \* metaData.uniformsUsed: the implicit UNIFORMs marked as used
    locals,             \* Method::locals: the names of the Locals the Method owns
    frontEndInstructions,   \* the instructions as the front-end appended them
    previousInstructions,   \* the instructions before the optimization pass run last
    passLog,            \* the optimization passes run so far with their return values
    irPc,               \* "build": the front-end appends; "optimize": passes run
    \* ---- Method: basic blocks and the cached CFG (Method.cpp) ----
    basicBlocks,        \* Method::basicBlocks: the blocks in order, each with its label and body
    cfg,                \* Method::cfg: whether a CFG is cached, and the edges it holds
    lastQuery,          \* the isLocallyLimited call made last, with its result
    lastRemoval,        \* the removeBlock call made last, with its result
    \* ---- createLocalName (Method.cpp) ----
    tmpIndex,           \* the process-wide counter for generated names
    nameCalls,          \* per compiling thread: the createLocalName call in progress
    returnedNames,      \* the names returned so far, in the order of the returns
    \* ---- walks and queries over the blocks (Eliminator.cpp, Method.cpp) ----
    returnIt,           \* the walker of the step applying eliminateReturn, <<0, 0>> before it starts
    returnBefore,       \* the blocks as they were when that step started
    lastNeighbours      \* the getPreviousBlock / getNextBlockAfter call made last, with its results

stackVars == <<stackAllocations, globalDataSize, stackPc, stackSize>>

memVars == <<memInfos, methodFlags, memPc>>

irVars == <<instructions, localUsers, uniformsUsed, locals, frontEndInstructions,
            previousInstructions, passLog, irPc>>

blockVars == <<basicBlocks, cfg, lastQuery, lastRemoval>>

vars == <<stackAllocations, globalDataSize, stackPc, stackSize, memInfos, methodFlags, memPc,
          instructions, localUsers, uniformsUsed, locals, frontEndInstructions,
          previousInstructions, passLog, irPc, basicBlocks, cfg, lastQuery,
          lastRemoval, tmpIndex, nameCalls, returnedNames, returnIt, returnBefore,
          lastNeighbours>>

nameVars == <<tmpIndex, nameCalls, returnedNames>>

walkVars == <<returnIt, returnBefore, lastNeighbours>>

\* the variables an action of one part leaves alone
notStack == <<memVars, irVars, blockVars, nameVars, walkVars>>

notMem == <<stackVars, irVars, blockVars, nameVars, walkVars>>

notIR == <<stackVars, memVars, blockVars, nameVars, walkVars>>

notBlocks == <<stackVars, memVars, irVars, nameVars, walkVars>>

notNames == <<stackVars, memVars, irVars, blockVars, walkVars>>

----------------------------------------------------------------------------
(***************************************************************************)
(* Generic helpers                                                         *)
(***************************************************************************)
Max2(a, b) == IF a >= b THEN a ELSE b

Min2(a, b) == IF a <= b THEN a ELSE b

RECURSIVE Pow(_, _)
Pow(b, e) == IF e = 0 THEN 1 ELSE b * Pow(b, e - 1)

Range(s) == {s[i] : i \in DOMAIN s}

----------------------------------------------------------------------------
(***************************************************************************)
(* Stack layout: Method::getStackBaseOffset, Method::calculateStackOffsets *)
(***************************************************************************)
\* Bounds of the stack model
MaxAllocs == 3

MaxAlignExp == 2

\* power-of-two alignments 1, 4, 16, ...
AllocAlignments == {Pow(4, k) : k \in 0..MaxAlignExp}

AllocSizes == {1, 16}

GlobalDataSizes == {0, 4, 24}

\* if(x % a != 0) x += a - (x % a)
AlignUp(x, a) == IF x % a # 0 THEN x + (a - (x % a)) ELSE x

\* Mutant: the maximum alignment really is the maximum over all allocations
GetStackBaseOffsetTrueMax(allocs, dataSize) ==
    LET maxAlignment == IF allocs = <<>> THEN 1
                        ELSE CHOOSE a \in {allocs[i].alignment : i \in DOMAIN allocs} :
                                 \A i \in DOMAIN allocs : allocs[i].alignment <= a
    IN  AlignUp(AlignUp(dataSize, maxAlignment), 8)

\* Method::getStackBaseOffset: the end of the global data, aligned to the
\* alignment of the FIRST stack allocation and then to 8 bytes
GetStackBaseOffset(allocs, dataSize) ==
    LET maxAlignment == IF allocs = <<>> THEN 1 ELSE allocs[1].alignment
    IN  AlignUp(AlignUp(dataSize, maxAlignment), 8)

\* One loop of calculateStackOffsets over the allocations whose isLowered
\* flag equals `lowered`, starting at index i with running offset cur.
RECURSIVE AssignOffsets(_, _, _, _, _)
AssignOffsets(allocs, i, cur, base, lowered) ==
    IF i > Len(allocs) THEN [allocs |-> allocs, cur |-> cur]
    ELSE IF allocs[i].isLowered # lowered
         THEN AssignOffsets(allocs, i + 1, cur, base, lowered)
         ELSE LET a   == allocs[i].alignment
                  off == IF (base + cur) % a # 0 THEN cur + (a - ((base + cur) % a)) ELSE cur
              IN  AssignOffsets([allocs EXCEPT ![i].offset = off], i + 1,
                                off + allocs[i].size, base, lowered)

CalculateStackOffsetsOfRestarting(allocs, dataSize) ==
    LET base   == GetStackBaseOffset(allocs, dataSize)
        first  == AssignOffsets(allocs, 1, 0, base, FALSE)
        second == AssignOffsets(first.allocs, 1, 0, base, TRUE)
    IN  second.allocs

\* Method::calculateStackOffsets: first the non-lowered allocations, then the
\* lowered ones, continuing from the same running offset
CalculateStackOffsetsOf(allocs, dataSize) ==
    LET base   == GetStackBaseOffset(allocs, dataSize)
        first  == AssignOffsets(allocs, 1, 0, base, FALSE)
        second == AssignOffsets(first.allocs, 1, first.cur, base, TRUE)
    IN  second.allocs

\* Method::calculateStackSize: the end of the non-lowered allocation reaching
\* furthest, aligned to the alignment of the FIRST stack allocation and then
\* to 8 bytes; 0 without a non-lowered allocation
CalculateStackSizeOf(allocs) ==
    LET ends == {allocs[i].offset + allocs[i].size :
                    i \in {j \in DOMAIN allocs : ~allocs[j].isLowered}}
        maxAlignment == IF allocs = <<>> THEN 1 ELSE allocs[1].alignment
    IN  IF ends = {} THEN 0
        ELSE AlignUp(AlignUp(CHOOSE e \in ends : \A f \in ends : f <= e, maxAlignment), 8)

NoStackSize == [known |-> FALSE, size |-> 0]

InitStack ==
    /\ stackAllocations = <<>>
    /\ globalDataSize \in GlobalDataSizes
    /\ stackPc = "open"
    /\ stackSize = NoStackSize

\* A front-end declares one more stack allocation (offset not yet assigned)
AddStackAllocation ==
    /\ Len(stackAllocations) < MaxAllocs
    /\ \E s \in AllocSizes, a \in AllocAlignments, l \in BOOLEAN :
          stackAllocations' = Append(stackAllocations,
              [size |-> s, alignment |-> a, isLowered |-> l, offset |-> 0])
    /\ stackPc' = "open"
    /\ stackSize' = NoStackSize
    /\ UNCHANGED <<globalDataSize, notStack>>

CalculateStackOffsets ==
    /\ stackPc = "open"
    /\ stackAllocations' = CalculateStackOffsetsOf(stackAllocations, globalDataSize)
    /\ stackPc' = "done"
    /\ stackSize' = NoStackSize
    /\ UNCHANGED <<globalDataSize, notStack>>

\* the stack size is asked for once the offsets are assigned
CalculateStackSize ==
    /\ stackPc = "done"
    /\ stackSize' = [known |-> TRUE, size |-> CalculateStackSizeOf(stackAllocations)]
    /\ UNCHANGED <<stackAllocations, globalDataSize, stackPc, notStack>>

NextStack == AddStackAllocation \/ CalculateStackOffsets \/ CalculateStackSize

----------------------------------------------------------------------------
(***************************************************************************)
(* Cross-work-item memory dependency analysis (MemoryAccess.cpp)           *)
(*                                                                         *)
(* A memory object is a record                                             *)
(*   constant  : a constant Global or a READ_ONLY Parameter                *)
(*   type      : its MemoryAccessType                                      *)
(*   objWidth  : vector width of the object's element type                 *)
(*   hasRanges : info.ranges is present                                    *)
(*   ranges    : the MemoryAccessRanges, each [op, width, parts]           *)
(*     op    : operation of the accessing MemoryInstruction ("read",       *)
(*             "write", "copy"), or "none" when the range's addressWrite   *)
(*             is not a MemoryInstruction                                  *)
(*     width : vector width of the element type that access touches        *)
(*             (destination element type of a read, source of a write)     *)
(*     parts : dynamicAddressParts, each [idDeco, expr]                    *)
(*       idDeco : the part's decorations name it a local/global id         *)
(*       expr   : the expression of the part's single writer,              *)
(*                [code, a0, a1, c0, c1]; an operand a is "id" (an         *)
(*                expression decorated as id), "lit" (literal c) or "loc"; *)
(*                code "none" when there is no single writer/expression    *)
(***************************************************************************)
\* Bounds of the memory model: objects of the Method, and access ranges and
\* dynamic address parts of all its objects together
MaxObjects == 2

MaxRanges == 2

MaxParts == 2

\* objects, ranges and parts of a Method together
MaxMemItems == 4

\* std::numeric_limits<unsigned>::max(), the initial minFactor. TLC's integers
\* end at 2^31-1, which stands for it: every factor of the model is far below.
UnsignedMax == 2147483647

MemoryAccessTypes == {"QPU_REGISTER_READONLY", "QPU_REGISTER_READWRITE", "VPM_PER_QPU",
                      "VPM_SHARED_ACCESS", "RAM_LOAD_TMU", "RAM_READ_WRITE_VPM"}

NO_CROSS_ITEM_MEMORY_ACCESS == "NO_CROSS_ITEM_MEMORY_ACCESS"

Expr(code, a0, c0, a1, c1) == [code |-> code, a0 |-> a0, c0 |-> c0, a1 |-> a1, c1 |-> c1]

NoExpr == Expr("none", "loc", 0, "loc", 0)

\* the address expressions the front-end may have recorded
ExprSamples ==
    { Expr("umul", "id", 0, "lit", 4),  Expr("shl", "id", 0, "lit", 3),
      Expr("shl", "lit", 2, "id", 0),   Expr("add", "loc", 0, "lit", 8) }

AccessWidths == {4, 8}

\* Expression::hasConstantOperand
HasConstantOperand(e) == e.a0 = "lit" \/ e.a1 = "lit"

\* 1u << n (the shift amounts of the model stay below the width of unsigned)
Shl32(n) == Pow(2, n)

\* Mutant: the shift amount itself is taken as the factor
ExprFactorNoShift(e) ==
    IF e.a0 = "id" THEN e.c1 ELSE e.c0

\* the factor of an accepted expression: the constant, or 1 << constant for a shift
ExprFactor(e) ==
    LET c == IF e.a0 = "id" THEN e.c1 ELSE e.c0
    IN  IF e.code = "shl" THEN Shl32(c) ELSE c

\* The lambda of hasOnlyAddressesDerivateOfLocalId applied to one part with the
\* accumulators acc = [minFactor, maxSize]; returns [ok, minFactor, maxSize].
CheckPart(obj, range, part, acc) ==
    IF part.idDeco
    THEN [ok |-> TRUE, minFactor |-> Min2(acc.minFactor, obj.objWidth),
          maxSize |-> Max2(acc.maxSize, obj.objWidth)]
    ELSE IF range.op = "none"
    THEN [ok |-> FALSE, minFactor |-> acc.minFactor, maxSize |-> acc.maxSize]
    ELSE LET e == part.expr
             leftIsId  == e.a0 = "id"
             rightIsId == e.a1 = "id"
             hasConstantArg == IF leftIsId THEN e.a1 = "lit" ELSE e.a0 = "lit"
         IN  IF /\ e.code # "none"
                /\ HasConstantOperand(e)
                /\ e.code \in {"umul", "mul24", "shl"}
                /\ hasConstantArg
                /\ leftIsId # rightIsId
                /\ range.op \in {"read", "write"}
             THEN [ok |-> TRUE, minFactor |-> Min2(acc.minFactor, ExprFactor(e)),
                   maxSize |-> Max2(acc.maxSize, range.width)]
             ELSE [ok |-> FALSE, minFactor |-> acc.minFactor, maxSize |-> acc.maxSize]

\* std::all_of over range.dynamicAddressParts, stopping at the first failing part
RECURSIVE AllParts(_, _, _, _)
AllParts(obj, range, i, acc) ==
    IF i > Len(range.parts) THEN [ok |-> TRUE, minFactor |-> acc.minFactor, maxSize |-> acc.maxSize]
    ELSE LET r == CheckPart(obj, range, range.parts[i], acc)
         IN  IF r.ok THEN AllParts(obj, range, i + 1, r) ELSE r

\* hasOnlyAddressesDerivateOfLocalId(range, minFactor, maxSize)
HasOnlyAddressesDerivateOfLocalId(obj, range, acc) ==
    IF range.parts = <<>>
    THEN [ok |-> FALSE, minFactor |-> acc.minFactor, maxSize |-> acc.maxSize]
    ELSE AllParts(obj, range, 1, acc)

\* std::all_of over info.ranges, stopping at the first failing range
RECURSIVE AllRanges(_, _, _)
AllRanges(obj, i, acc) ==
    IF i > Len(obj.ranges) THEN [ok |-> TRUE, minFactor |-> acc.minFactor, maxSize |-> acc.maxSize]
    ELSE LET r == HasOnlyAddressesDerivateOfLocalId(obj, obj.ranges[i], acc)
         IN  IF r.ok THEN AllRanges(obj, i + 1, r) ELSE r

\* Mutant: the comparison of the touched width against the factor is dropped
MayHaveCrossWorkItemMemoryDependencyNoBound(obj) ==
    IF obj.constant THEN FALSE
    ELSE IF obj.type \in {"RAM_LOAD_TMU", "QPU_REGISTER_READONLY", "QPU_REGISTER_READWRITE", "VPM_PER_QPU"}
    THEN FALSE
    ELSE IF obj.hasRanges
    THEN ~AllRanges(obj, 1, [minFactor |-> UnsignedMax, maxSize |-> 0]).ok
    ELSE TRUE

\* mayHaveCrossWorkItemMemoryDependency(memoryObject, info)
MayHaveCrossWorkItemMemoryDependency(obj) ==
    IF obj.constant THEN FALSE
    ELSE IF obj.type \in {"RAM_LOAD_TMU", "QPU_REGISTER_READONLY", "QPU_REGISTER_READWRITE", "VPM_PER_QPU"}
    THEN FALSE
    ELSE IF obj.hasRanges
    THEN LET r == AllRanges(obj, 1, [minFactor |-> UnsignedMax, maxSize |-> 0])
         IN  ~(r.ok /\ r.maxSize <= r.minFactor)
    ELSE TRUE

\* Mutant: the flag is set as soon as one object is free of dependencies
FlagsAfterMappingAnyOf(infos, flags) ==
    IF \E i \in DOMAIN infos : ~MayHaveCrossWorkItemMemoryDependency(infos[i])
    THEN flags \cup {NO_CROSS_ITEM_MEMORY_ACCESS}
    ELSE flags

\* mapMemoryAccess, lines 451-457: std::none_of over infos, then add_flag
FlagsAfterMapping(infos, flags) ==
    IF \A i \in DOMAIN infos : ~MayHaveCrossWorkItemMemoryDependency(infos[i])
    THEN flags \cup {NO_CROSS_ITEM_MEMORY_ACCESS}
    ELSE flags

RECURSIVE SumSeq(_)
SumSeq(s) == IF s = <<>> THEN 0 ELSE Head(s) + SumSeq(Tail(s))

TotalRanges(infos) == SumSeq([i \in DOMAIN infos |-> Len(infos[i].ranges)])

TotalParts(infos) ==
    SumSeq([i \in DOMAIN infos |->
               SumSeq([k \in DOMAIN infos[i].ranges |-> Len(infos[i].ranges[k].parts)])])

MemItems(infos) == Len(infos) + TotalRanges(infos) + TotalParts(infos)

InitMem ==
    /\ memInfos = <<>>
    /\ methodFlags \in {{}, {"OTHER_FLAG"}}    \* flags set by earlier stages
    /\ memPc = "open"

\* determineMemoryAccess/checkMemoryMapping found one more memory object
RecordMemoryObject ==
    /\ memPc = "open"
    /\ Len(memInfos) < MaxObjects
    /\ MemItems(memInfos) < MaxMemItems
    /\ \E c \in BOOLEAN, t \in {"VPM_PER_QPU", "RAM_READ_WRITE_VPM"},
          w \in {8}, hr \in BOOLEAN :
          memInfos' = Append(memInfos, [constant |-> c, type |-> t, objWidth |-> w,
                                        hasRanges |-> hr, ranges |-> <<>>])
    /\ UNCHANGED <<methodFlags, memPc, notMem>>

\* ... one more access range of the object recorded last
RecordAccessRange ==
    /\ memPc = "open"
    /\ memInfos # <<>>
    /\ LET n == Len(memInfos) IN
       /\ memInfos[n].hasRanges
       /\ TotalRanges(memInfos) < MaxRanges
       /\ MemItems(memInfos) < MaxMemItems
       /\ \E op \in {"read", "write", "copy", "none"}, w \in AccessWidths :
             memInfos' = [memInfos EXCEPT ![n].ranges =
                             Append(@, [op |-> op, width |-> w, parts |-> <<>>])]
    /\ UNCHANGED <<methodFlags, memPc, notMem>>

\* ... one more dynamic address part of the range recorded last
RecordAddressPart ==
    /\ memPc = "open"
    /\ memInfos # <<>>
    /\ LET n == Len(memInfos) IN
       /\ memInfos[n].ranges # <<>>
       /\ LET k == Len(memInfos[n].ranges) IN
          /\ TotalParts(memInfos) < MaxParts
          /\ MemItems(memInfos) < MaxMemItems
          /\ \E part \in {[idDeco |-> TRUE, expr |-> NoExpr]} \cup
                         {[idDeco |-> FALSE, expr |-> e] : e \in ExprSamples} :
                memInfos' = [memInfos EXCEPT ![n].ranges[k].parts = Append(@, part)]
    /\ UNCHANGED <<methodFlags, memPc, notMem>>

MapMemoryAccess ==
    /\ memPc = "open"
    /\ methodFlags' = FlagsAfterMapping(memInfos, methodFlags)
    /\ memPc' = "mapped"
    /\ UNCHANGED <<memInfos, notMem>>

NextMem == RecordMemoryObject \/ RecordAccessRange \/ RecordAddressPart \/ MapMemoryAccess

----------------------------------------------------------------------------
(***************************************************************************)
(* Intermediate code: Values, Instructions and the use-tracking of Locals  *)
(*                                                                         *)
(* A Value is a record [k, n, lit]: a Local (k = "loc", n its name), a     *)
(* register (k = "reg"), a literal (k = "lit", lit its word) or no value.  *)
(* An instruction is a record                                              *)
(*   id     : the identity of the instruction object (the LocalUser)       *)
(*   kind   : "label", "op", "move", "load" or "nop"                       *)
(*   op     : the op-code of an Operation ("" otherwise)                   *)
(*   out    : the output Value, args : the argument Values                 *)
(*   cond   : executed conditionally, setf : sets flags                    *)
(*   unpack : has a single-byte extraction unpack mode                     *)
(*   deco   : the set of decorations                                       *)
(* The instructions of the model carry no pack mode, signal or vector      *)
(* rotation.  A Method of this part has one basic block, which starts with *)
(* its label.                                                              *)
(***************************************************************************)
\* literals are words of WordBits bits
WordBits == 8

WordModulus == Pow(2, WordBits)

AllOnes == WordModulus - 1

Loc(name) == [k |-> "loc", n |-> name, lit |-> 0]

Reg(name) == [k |-> "reg", n |-> name, lit |-> 0]

Lit(i) == [k |-> "lit", n |-> "", lit |-> i]

NO_VALUE == [k |-> "none", n |-> "", lit |-> 0]

IsLocal(v) == v.k = "loc"

IsRegister(v) == v.k = "reg"

IsLiteral(v) == v.k = "lit"

\* the Locals of a Method by their class
Parameters == {"x", "y"}

BuiltinLocals == {"GROUP_ID_X", "LOCAL_IDS", "UNIFORM_ADDRESS", "MAX_GROUP_ID_X"}

\* Register::hasSideEffectsOnRead / hasSideEffectsOnWrite
HasSideEffectsOnRead(r) == r \in {"unif", "vpm"}

HasSideEffectsOnWrite(r) == r \in {"vpm"}

IsReplicationRegister(r) == r \in {"r5", "rep_quad", "rep_all"}

Instr(kind, op, out, args, cond, setf, unpack, deco) ==
    [id |-> 0, kind |-> kind, op |-> op, out |-> out, args |-> args,
     cond |-> cond, setf |-> setf, unpack |-> unpack, deco |-> deco]

Label == Instr("label", "", NO_VALUE, <<>>, FALSE, FALSE, FALSE, {})

Op(op, out, a0, a1) == Instr("op", op, out, <<a0, a1>>, FALSE, FALSE, FALSE, {})

UnaryOp(op, out, a0) == Instr("op", op, out, <<a0>>, FALSE, FALSE, FALSE, {})

Move(out, src) == Instr("move", "", out, <<src>>, FALSE, FALSE, FALSE, {})

\* a vector rotation is a MoveOperation with a rotation offset
Rotation(out, src) == Instr("move", "rotate", out, <<src>>, FALSE, FALSE, FALSE, {})

Load(out, i) == Instr("load", "", out, <<Lit(i)>>, FALSE, FALSE, FALSE, {})

\* IntermediateInstruction queries
ReadsLocal(instr, name) == \E k \in DOMAIN instr.args : instr.args[k] = Loc(name)

WritesLocal(instr, name) == instr.out = Loc(name)

ReadsRegister(instr, r) == \E k \in DOMAIN instr.args : instr.args[k] = Reg(r)

WritesRegister(instr, r) == instr.out = Reg(r)

ReadsLiteral(instr) == \E k \in DOMAIN instr.args : IsLiteral(instr.args[k])

ReadsRegisterWithSideEffects(instr) ==
    \E k \in DOMAIN instr.args :
        IsRegister(instr.args[k]) /\ HasSideEffectsOnRead(instr.args[k].n)

HasSideEffects(instr) ==
    \/ instr.setf
    \/ IsRegister(instr.out) /\ HasSideEffectsOnWrite(instr.out.n)
    \/ ReadsRegisterWithSideEffects(instr)

IsAluOrLoad(instr) == instr.kind \in {"op", "move", "load"}

\* ---- LocalUse bookkeeping: users is a set of [loc, id, r, w] records, ----
\* ---- one per (Local, instruction) pair with a use                      ----
UseOf(users, name, id) ==
    IF \E u \in users : u.loc = name /\ u.id = id
    THEN CHOOSE u \in users : u.loc = name /\ u.id = id
    ELSE [loc |-> name, id |-> id, r |-> 0, w |-> 0]

PutUse(users, use) ==
    LET rest == {u \in users : ~(u.loc = use.loc /\ u.id = use.id)}
    IN  IF use.r = 0 /\ use.w = 0 THEN rest ELSE rest \cup {use}

\* Local::addUser / Local::removeUser for one reference of type "r" or "w"
AddUser(users, name, id, type) ==
    LET u == UseOf(users, name, id)
    IN  PutUse(users, IF type = "r" THEN [u EXCEPT !.r = @ + 1]
                                   ELSE [u EXCEPT !.w = @ + 1])

RemoveUser(users, name, id, type) ==
    LET u == UseOf(users, name, id)
    IN  PutUse(users, IF type = "r" THEN [u EXCEPT !.r = Max2(@ - 1, 0)]
                                   ELSE [u EXCEPT !.w = Max2(@ - 1, 0)])

AddAsUserToValue(users, v, id, type) ==
    IF IsLocal(v) THEN AddUser(users, v.n, id, type) ELSE users

RemoveAsUserFromValue(users, v, id, type) ==
    IF IsLocal(v) THEN RemoveUser(users, v.n, id, type) ELSE users

RECURSIVE AddAsReader(_, _, _, _)
AddAsReader(users, args, id, k) ==
    IF k > Len(args) THEN users
    ELSE AddAsReader(AddAsUserToValue(users, args[k], id, "r"), args, id, k + 1)

RECURSIVE RemoveAsReader(_, _, _, _)
RemoveAsReader(users, args, id, k) ==
    IF k > Len(args) THEN users
    ELSE RemoveAsReader(RemoveAsUserFromValue(users, args[k], id, "r"), args, id, k + 1)

\* construction and destruction of an instruction object
AddInstructionUses(users, instr) ==
    AddAsReader(AddAsUserToValue(users, instr.out, instr.id, "w"), instr.args, instr.id, 1)

RemoveInstructionUses(users, instr) ==
    RemoveAsReader(RemoveAsUserFromValue(users, instr.out, instr.id, "w"),
                   instr.args, instr.id, 1)

\* Local queries
HasReaders(users, name) == \E u \in users : u.loc = name /\ u.r > 0

HasWriters(users, name) == \E u \in users : u.loc = name /\ u.w > 0

Readers(users, name) == {u.id : u \in {x \in users : x.loc = name /\ x.r > 0}}

Writers(users, name) == {u.id : u \in {x \in users : x.loc = name /\ x.w > 0}}

\* ---- the Method of this part: [ins, users, uniformsUsed] ----
RemoveAt(s, i) == SubSeq(s, 1, i - 1) \o SubSeq(s, i + 1, Len(s))

InsertAt(s, i, e) == SubSeq(s, 1, i - 1) \o <<e>> \o SubSeq(s, i, Len(s))

IndexOfId(ins, id) ==
    IF \E i \in DOMAIN ins : ins[i].id = id
    THEN CHOOSE i \in DOMAIN ins : ins[i].id = id
    ELSE 0

\* InstructionWalker::erase: the instruction is destroyed, the walker then
\* stands on the instruction that followed it
WalkerErase(m, i) ==
    [m EXCEPT !.ins = RemoveAt(@, i),
              !.users = RemoveInstructionUses(@, m.ins[i])]

WalkerPreviousInBlockTwice(it) == IF it > 2 THEN it - 2 ELSE it - 1

\* InstructionWalker::previousInBlock
WalkerPreviousInBlock(it) == it - 1

\* InstructionWalker::reset: the instruction is destroyed and a new one
\* takes its place
WalkerReset(m, i, instr) ==
    LET new == [instr EXCEPT !.id = m.ins[i].id]
    IN  [m EXCEPT !.ins[i] = new,
                  !.users = AddInstructionUses(RemoveInstructionUses(@, m.ins[i]), new)]

\* InstructionWalker::emplace: a new instruction is inserted before the walker
WalkerEmplace(m, i, instr, id) ==
    LET new == [instr EXCEPT !.id = id]
    IN  [m EXCEPT !.ins = InsertAt(@, i, new),
                  !.users = AddInstructionUses(@, new)]

\* IntermediateInstruction::setArgument
SetArgument(m, i, k, v) ==
    LET old == m.ins[i]
    IN  [m EXCEPT !.ins[i].args[k] = v,
                  !.users = AddAsUserToValue(
                                RemoveAsUserFromValue(@, old.args[k], old.id, "r"),
                                v, old.id, "r")]

\* IntermediateInstruction::replaceValue(oldValue, newValue, READER): every
\* argument equal to oldValue is replaced
RECURSIVE ReplaceValueFrom(_, _, _, _, _)
ReplaceValueFrom(m, i, oldValue, newValue, k) ==
    IF k > Len(m.ins[i].args) THEN m
    ELSE IF m.ins[i].args[k] = oldValue
         THEN ReplaceValueFrom(SetArgument(m, i, k, newValue), i, oldValue, newValue, k + 1)
         ELSE ReplaceValueFrom(m, i, oldValue, newValue, k + 1)

ReplaceValue(m, i, oldValue, newValue) == ReplaceValueFrom(m, i, oldValue, newValue, 1)

\* IntermediateInstruction::setOutput
SetOutput(m, i, v) ==
    LET old == m.ins[i]
    IN  [m EXCEPT !.ins[i].out = v,
                  !.users = AddAsUserToValue(
                                RemoveAsUserFromValue(@, old.out, old.id, "w"),
                                v, old.id, "w")]

\* Local::getSingleWriter: the index of the only writing instruction, 0 if
\* there is none or more than one
GetSingleWriter(m, v) ==
    IF IsLocal(v) /\ Cardinality(Writers(m.users, v.n)) = 1
    THEN IndexOfId(m.ins, CHOOSE id \in Writers(m.users, v.n) : TRUE)
    ELSE 0

CountReaders(m, name) == Cardinality(Readers(m.users, name))

\* ---- OpCode evaluation on literal words ----
RECURSIVE Bitwise(_, _, _, _)
Bitwise(op, a, b, n) ==
    IF n = 0 THEN 0
    ELSE LET x == a % 2
             y == b % 2
             bit == CASE op = "and" -> IF x = 1 /\ y = 1 THEN 1 ELSE 0
                      [] op = "or"  -> IF x = 1 \/ y = 1 THEN 1 ELSE 0
                      [] OTHER      -> IF x # y THEN 1 ELSE 0
         IN  bit + 2 * Bitwise(op, a \div 2, b \div 2, n - 1)

\* only the last bits of a shift offset are used by the ALU
ShiftOffset(b) == b % WordBits

BinaryOpCodes == {"and", "or", "xor", "add", "sub", "shl", "shr", "asr"}

UnaryOpCodes == {"not"}

EvalOpCode(op, a, b) ==
    CASE op \in {"and", "or", "xor"} -> Bitwise(op, a, b, WordBits)
      [] op = "add" -> (a + b) % WordModulus
      [] op = "sub" -> (a - b + WordModulus) % WordModulus
      [] op = "shl" -> (a * Pow(2, ShiftOffset(b))) % WordModulus
      [] op = "shr" -> a \div Pow(2, ShiftOffset(b))
      [] op = "asr" -> (a \div Pow(2, ShiftOffset(b))) +
                       (IF a >= WordModulus \div 2
                        THEN WordModulus - Pow(2, WordBits - ShiftOffset(b))
                        ELSE 0)
      [] OTHER      -> AllOnes - a      \* "not"

\* IntermediateInstruction::precalculate(numIterations): the constant the
\* instruction produces, looking through the single writers of its
\* arguments; NO_VALUE if it is not known
RECURSIVE Precalculate(_, _, _)
PrecalculatedArg(m, instr, k, n) ==
    LET arg == instr.args[k]
    IN  IF IsLiteral(arg) THEN arg
        ELSE IF IsLocal(arg) /\ n > 0 /\ GetSingleWriter(m, arg) # 0
             THEN Precalculate(m, m.ins[GetSingleWriter(m, arg)], n - 1)
             ELSE NO_VALUE

Precalculate(m, instr, n) ==
    IF instr.unpack THEN NO_VALUE
    ELSE CASE instr.kind = "load" -> instr.args[1]
           [] instr.kind = "move" -> PrecalculatedArg(m, instr, 1, n)
           [] instr.kind = "op" ->
                LET a0 == PrecalculatedArg(m, instr, 1, n)
                    a1 == IF Len(instr.args) > 1
                          THEN PrecalculatedArg(m, instr, 2, n) ELSE Lit(0)
                IN  IF IsLiteral(a0) /\ IsLiteral(a1) /\
                       instr.op \in BinaryOpCodes \cup UnaryOpCodes /\
                       (instr.op \in UnaryOpCodes <=> Len(instr.args) = 1)
                    THEN Lit(EvalOpCode(instr.op, a0.lit, a1.lit))
                    ELSE NO_VALUE
           [] OTHER -> NO_VALUE

\* Value::getConstantValue
GetConstantValue(m, v) ==
    IF IsLiteral(v) THEN v
    ELSE IF GetSingleWriter(m, v) # 0
         THEN Precalculate(m, m.ins[GetSingleWriter(m, v)], 3)
         ELSE NO_VALUE

\* copyExtrasFrom: condition, flags and decorations of the replaced instruction
CopyExtrasFrom(new, old) ==
    [new EXCEPT !.cond = old.cond, !.setf = old.setf, !.deco = @ \cup old.deco]

\* foldConstants, without the execution condition (mutation of foldConstants)
FoldConstantsDropExtras(m, it) ==
    LET op == m.ins[it]
    IN  IF op.kind = "op" /\ ~op.setf /\ ~op.unpack
           /\ IsLiteral(GetConstantValue(m, op.args[1]))
           /\ (Len(op.args) < 2 \/ IsLiteral(GetConstantValue(m, op.args[2])))
           /\ IsLiteral(Precalculate(m, op, 3))
        THEN WalkerReset(m, it, Move(op.out, Precalculate(m, op, 3)))
        ELSE m

\* optimizations::foldConstants at walker position it
FoldConstants(m, it) ==
    LET op == m.ins[it]
    IN  IF op.kind = "op" /\ ~op.setf /\ ~op.unpack
           /\ IsLiteral(GetConstantValue(m, op.args[1]))
           /\ (Len(op.args) < 2 \/ IsLiteral(GetConstantValue(m, op.args[2])))
        THEN IF op.cond /\ op.op = "xor" /\ Len(op.args) = 2 /\ op.args[2] = op.args[1]
             THEN m
             ELSE IF "CONSTANT_LOAD" \in op.deco
             THEN m
             ELSE IF IsLiteral(Precalculate(m, op, 3))
             THEN WalkerReset(m, it,
                      CopyExtrasFrom(Move(op.out, Precalculate(m, op, 3)), op))
             ELSE m
        ELSE m

\* ---- the Method held in the variables ----
TheMethod == [ins |-> instructions, users |-> localUsers, uniformsUsed |-> uniformsUsed]

SetMethod(m) ==
    /\ instructions' = m.ins
    /\ localUsers' = m.users
    /\ uniformsUsed' = m.uniformsUsed

\* the Locals an instruction refers to that the Method owns in its locals
\* (Parameters and builtins are held apart)
OwnedLocalsOf(instr) ==
    {v.n : v \in {w \in Range(instr.args) \cup {instr.out} : IsLocal(w)}}
        \ (Parameters \cup BuiltinLocals)

\* the implicit UNIFORMs marked as used for the builtins an instruction writes
UniformsOf(instr) ==
    IF IsLocal(instr.out) /\ instr.out.n \in BuiltinLocals THEN {instr.out.n} ELSE {}

InitIR ==
    /\ instructions = <<[Label EXCEPT !.id = 1]>>
    /\ localUsers = {}
    /\ uniformsUsed = {}
    /\ locals = {}
    /\ frontEndInstructions = <<[Label EXCEPT !.id = 1]>>
    /\ previousInstructions = <<>>
    /\ passLog = <<>>
    /\ irPc = "build"

\* Method::appendToEnd(instr) by the front-end: the instruction is created
\* (registering its uses) and put at the end of the last block
AppendToEnd(templates, maxLen) ==
    /\ irPc = "build"
    /\ Len(instructions) < maxLen
    /\ \E t \in templates :
          LET new == [t EXCEPT !.id = Len(instructions) + 1] IN
          /\ instructions' = Append(instructions, new)
          /\ localUsers' = AddInstructionUses(localUsers, new)
          /\ uniformsUsed' = uniformsUsed \cup UniformsOf(new)
          /\ locals' = locals \cup OwnedLocalsOf(new)
          /\ frontEndInstructions' = Append(instructions, new)
    /\ UNCHANGED <<previousInstructions, passLog, irPc, notIR>>

\* ---- constant folding ----
MaxFoldInstructions == 3

\* the operand pairs of the operations to fold: literals in both orders and
\* a Local on either side
FoldSources ==
    {<<Lit(255), Lit(15)>>, <<Lit(15), Lit(255)>>,
     <<Loc("a"), Lit(15)>>, <<Lit(255), Loc("a")>>}

FoldTemplates ==
    {Load(Loc("a"), 3), Load(Loc("a"), 255), Move(Loc("a"), Loc("x"))}
    \cup {Op(o, Loc("c"), p[1], p[2]) : o \in BinaryOpCodes, p \in FoldSources}
    \cup {UnaryOp("not", Loc("c"), p[1]) : p \in FoldSources}
    \cup {Op("or", Loc("d"), Loc("c"), Lit(3)), Op("add", Loc("d"), Loc("c"), Loc("c"))}
    \cup {Op("xor", Loc("c"), Lit(15), Lit(15)),
          [Op("xor", Loc("c"), Lit(15), Lit(15)) EXCEPT !.cond = TRUE],
          [Op("xor", Loc("c"), Lit(15), Lit(255)) EXCEPT !.cond = TRUE],
          [Op("add", Loc("c"), Lit(15), Lit(255)) EXCEPT !.setf = TRUE],
          [Op("add", Loc("c"), Lit(15), Lit(3)) EXCEPT !.deco = {"CONSTANT_LOAD"}],
          [Op("and", Loc("c"), Lit(15), Lit(3)) EXCEPT !.deco = {"UNSIGNED_RESULT"}],
          [Op("and", Loc("c"), Lit(255), Lit(3)) EXCEPT !.unpack = TRUE]}

AppendToEndFold == AppendToEnd(FoldTemplates, MaxFoldInstructions)

\* an optimization step calls foldConstants with the walker on some instruction
ApplyFoldConstants ==
    /\ Len(instructions) > 1
    /\ \E it \in DOMAIN instructions : SetMethod(FoldConstants(TheMethod, it))
    /\ irPc' = "optimize"
    /\ UNCHANGED <<locals, frontEndInstructions, previousInstructions, passLog, notIR>>

NextFold == AppendToEndFold \/ ApplyFoldConstants

----------------------------------------------------------------------------
(***************************************************************************)
(* optimizations::simplifyOperation (Eliminator.cpp)                       *)
(***************************************************************************)
\* ---- the algebraic properties of the op-codes (OpCode, not in src) ----
GetRightIdentity(op) ==
    CASE op \in {"add", "sub", "or", "xor", "shl", "shr", "asr"} -> Lit(0)
      [] op = "and" -> Lit(AllOnes)
      [] OTHER -> NO_VALUE

GetLeftIdentity(op) ==
    CASE op \in {"add", "or", "xor"} -> Lit(0)
      [] op = "and" -> Lit(AllOnes)
      [] OTHER -> NO_VALUE

GetRightAbsorbingElement(op) ==
    CASE op = "and" -> Lit(0)
      [] op = "or" -> Lit(AllOnes)
      [] OTHER -> NO_VALUE

GetLeftAbsorbingElement(op) ==
    CASE op = "and" -> Lit(0)
      [] op \in {"or", "asr"} -> Lit(AllOnes)
      [] OTHER -> NO_VALUE

IsSelfInverse(op) == op \in {"sub", "xor"}

IsIdempotent(op) == op \in {"and", "or"}

\* the Locals of boolean type
BoolLocals == {"c"}

IsBoolean(v) == IsLocal(v) /\ v.n \in BoolLocals

\* Operation::isSimpleOperation / MoveOperation::isSimpleMove: no flags,
\* signals, pack or unpack modes
IsSimpleOperation(instr) == ~HasSideEffects(instr) /\ ~instr.unpack

IsSimpleMove(instr) == ~HasSideEffects(instr) /\ ~instr.unpack

\* IntermediateInstruction::getVectorRotation: the instruction rotates the
\* elements of its source
GetVectorRotation(instr) == instr.kind = "move" /\ instr.op = "rotate"

\* Value::isAllSame: every element holds the same word
IsAllSame(v) == IsLiteral(v)

\* Value::hasLiteral, for an optional element of the op-code
HasLiteral(v, element) == element # NO_VALUE /\ IsLiteral(v) /\ v.lit = element.lit

\* the argument, or the constant its single writer pre-calculates to
PrecalculatedOr(m, v) ==
    IF GetSingleWriter(m, v) # 0 /\ Precalculate(m, m.ins[GetSingleWriter(m, v)], 3) # NO_VALUE
    THEN Precalculate(m, m.ins[GetSingleWriter(m, v)], 3)
    ELSE v

IsIdempotentOnAny(op, firstArg, secondArg) ==
    IsIdempotent(op) /\ secondArg # NO_VALUE

\* op->op.isIdempotent() && secondArg && secondArg.value() == firstArg
IsIdempotentOnEqual(op, firstArg, secondArg) ==
    IsIdempotent(op) /\ secondArg # NO_VALUE /\ secondArg = firstArg

\* it.reset(new MoveOperation(output, source, condition, flags)) with the
\* decorations of the operation
ResetToMove(m, it, source) ==
    WalkerReset(m, it, CopyExtrasFrom(Move(m.ins[it].out, source), m.ins[it]))

ResetToNot(m, it, source) ==
    WalkerReset(m, it, CopyExtrasFrom(UnaryOp("not", m.ins[it].out, source), m.ins[it]))

\* simplifyOperation with the walker at it
SimplifyOperation(m, it) ==
    LET op == m.ins[it] IN
    IF op.kind = "op"
    THEN IF ~IsSimpleOperation(op) THEN m
         ELSE
         LET first == op.args[1]
             second == IF Len(op.args) > 1 THEN op.args[2] ELSE NO_VALUE
             firstArg == PrecalculatedOr(m, first)
             secondArg == IF second = NO_VALUE THEN NO_VALUE ELSE PrecalculatedOr(m, second)
             rightIdentity == GetRightIdentity(op.op)
             leftIdentity == GetLeftIdentity(op.op)
             rightAbsorbing == GetRightAbsorbingElement(op.op)
             leftAbsorbing == GetLeftAbsorbingElement(op.op)
         IN  IF HasLiteral(firstArg, leftAbsorbing)
             THEN ResetToMove(m, it, leftAbsorbing)
             ELSE IF secondArg # NO_VALUE /\ HasLiteral(secondArg, rightAbsorbing)
             THEN ResetToMove(m, it, rightAbsorbing)
             ELSE IF IsSelfInverse(op.op) /\ firstArg = secondArg /\ ~IsBoolean(firstArg)
             THEN ResetToMove(m, it, Lit(0))
             ELSE IF op.out = first
             THEN IF secondArg # NO_VALUE /\ HasLiteral(secondArg, rightIdentity)
                  THEN WalkerErase(m, it)
                  ELSE IF IsIdempotentOnEqual(op.op, firstArg, secondArg)
                  THEN WalkerErase(m, it)
                  ELSE m
             ELSE IF second # NO_VALUE /\ op.out = second
             THEN IF HasLiteral(firstArg, leftIdentity)
                  THEN WalkerErase(m, it)
                  ELSE IF IsIdempotentOnEqual(op.op, firstArg, secondArg)
                          /\ ~IsRegister(firstArg)
                  THEN WalkerErase(m, it)
                  ELSE m
             ELSE IF secondArg # NO_VALUE /\ HasLiteral(secondArg, rightIdentity)
                  THEN ResetToMove(m, it, first)
                  ELSE IF secondArg # NO_VALUE /\ HasLiteral(firstArg, leftIdentity)
                  THEN ResetToMove(m, it, second)
                  ELSE IF IsIdempotentOnEqual(op.op, firstArg, secondArg)
                          /\ ~IsRegister(firstArg)
                  THEN ResetToMove(m, it, second)
                  ELSE IF op.op = "xor" /\ first = Lit(AllOnes)
                  THEN ResetToNot(m, it, second)
                  ELSE IF op.op = "xor" /\ second = Lit(AllOnes)
                  THEN ResetToNot(m, it, first)
                  ELSE m
    ELSE m

\* what reading a destroyed MoveOperation through the pointer kept to it can
\* give: the fields it held, or those of whatever took its storage since
DestroyedMoveReadAs(move) ==
    {move,
     [move EXCEPT !.args = <<Lit(0)>>],
     [move EXCEPT !.args = <<Lit(0)>>, !.out = Loc("b")]}

\* the move branch of simplifyOperation with the walker at it: the outcomes
\* the build can produce, each with the walker returned.  The second test is
\* not an else of the first: after erase and previousInBlock it looks at the
\* instruction in front of the erased move and, when that is a vector
\* rotation, reads the source of the destroyed move.
SimplifyMove(m, it) ==
    LET move == m.ins[it]
        erases == move.args[1] = move.out /\ IsSimpleMove(move)
        afterErase == IF erases THEN WalkerErase(m, it) ELSE m
        at == IF erases THEN WalkerPreviousInBlock(it) ELSE it
        Replaced(read) ==
            WalkerReset(afterErase, at,
                [Move(read.out, read.args[1]) EXCEPT !.cond = read.cond,
                                                     !.setf = read.setf,
                                                     !.deco = afterErase.ins[at].deco])
        Outcome(read, destroyed) ==
            [m |-> IF IsAllSame(read.args[1]) THEN Replaced(read) ELSE afterErase,
             it |-> at, readDestroyed |-> destroyed, crashed |-> FALSE]
    IN  IF ~GetVectorRotation(afterErase.ins[at])
        THEN {[m |-> afterErase, it |-> at, readDestroyed |-> FALSE, crashed |-> FALSE]}
        ELSE IF ~erases
        THEN {Outcome(move, FALSE)}
        ELSE {[m |-> afterErase, it |-> at, readDestroyed |-> TRUE, crashed |-> TRUE]}
             \cup {Outcome(read, TRUE) : read \in DestroyedMoveReadAs(move)}

\* simplifyOperation as a whole: the Method and the walker it returns
SimplifyOperationOutcomes(m, it) ==
    IF m.ins[it].kind = "move"
    THEN SimplifyMove(m, it)
    ELSE {[m |-> SimplifyOperation(m, it),
           it |-> IF Len(SimplifyOperation(m, it).ins) < Len(m.ins)
                  THEN WalkerPreviousInBlock(it) ELSE it,
           readDestroyed |-> FALSE, crashed |-> FALSE]}

----------------------------------------------------------------------------
(***************************************************************************)
(* optimizations::eliminateDeadCode (Eliminator.cpp)                       *)
(***************************************************************************)
\* the smallest index of a set of walker positions, 0 if there is none
FirstOf(S) == IF S = {} THEN 0 ELSE CHOOSE j \in S : \A k \in S : j <= k

\* the instruction reads or writes r5 or a replication register
TouchesReplication(instr) ==
    \/ IsRegister(instr.out) /\ IsReplicationRegister(instr.out.n)
    \/ \E k \in DOMAIN instr.args :
          IsRegister(instr.args[k]) /\ IsReplicationRegister(instr.args[k].n)

\* the builtins whose "used" flag eliminateDeadCode knows how to clear
DisableableBuiltins ==
    {"WORK_DIMENSIONS", "GLOBAL_DATA_ADDRESS", "GLOBAL_OFFSET_X", "GLOBAL_OFFSET_Y",
     "GLOBAL_OFFSET_Z", "GROUP_ID_X", "GROUP_ID_Y", "GROUP_ID_Z", "LOCAL_IDS",
     "LOCAL_SIZES", "NUM_GROUPS_X", "NUM_GROUPS_Y", "NUM_GROUPS_Z"}

\* Method::cleanLocals: its body is commented out, the locals stay as they are
CleanLocals(ownedLocals, users) == ownedLocals

\* the output is a non-parameter Local that is never read
IsNeverReadOutput(m, instr) ==
    /\ IsAluOrLoad(instr) /\ IsLocal(instr.out)
    /\ ~HasSideEffects(instr)
    /\ instr.out.n \notin Parameters
    /\ ~HasReaders(m.users, instr.out.n)

\* a simple Local-to-Local move whose output has no writer: the Locals are merged
IsMergeableMove(m, instr) ==
    /\ instr.kind = "move" /\ IsLocal(instr.out)
    /\ IsLocal(instr.args[1]) /\ ~instr.unpack
    /\ ~HasWriters(m.users, instr.out.n)

\* every reader of outLoc reads inLoc instead
RECURSIVE MergeLocals(_, _, _, _)
MergeLocals(m, readers, outLoc, inLoc) ==
    IF readers = {} THEN m
    ELSE LET id == CHOOSE r \in readers : TRUE
             i == IndexOfId(m.ins, id)
         IN  MergeLocals(ReplaceValue(m, i, Loc(outLoc), Loc(inLoc)),
                         readers \ {id}, outLoc, inLoc)

\* a read of a work-group UNIFORM into a builtin that is never read
IsUnusedUniformRead(m, instr) ==
    /\ instr.kind = "move" /\ IsLocal(instr.out)
    /\ ~(IsLocal(instr.args[1]) /\ ~instr.unpack)
    /\ instr.args[1] = Reg("unif")
    /\ instr.out.n \in BuiltinLocals
    /\ ~HasReaders(m.users, instr.out.n)
    /\ instr.out.n \in DisableableBuiltins

\* a write of r5 or a replication register that is overwritten before it is read
IsUnusedRegisterWrite(m, it) ==
    LET instr == m.ins[it]
        checkIt == FirstOf({j \in (it + 1)..Len(m.ins) : TouchesReplication(m.ins[j])})
    IN  /\ IsAluOrLoad(instr) /\ IsRegister(instr.out) /\ ~HasSideEffects(instr)
        /\ IsReplicationRegister(instr.out.n)
        /\ checkIt # 0
        /\ IsRegister(m.ins[checkIt].out) /\ IsReplicationRegister(m.ins[checkIt].out.n)

IsOverwrittenOrUnreadWrite(m, it) ==
    LET instr == m.ins[it]
        checkIt == FirstOf({j \in (it + 1)..Len(m.ins) :
                               \/ ReadsLocal(m.ins[j], instr.out.n)
                               \/ WritesLocal(m.ins[j], instr.out.n) /\ ~m.ins[j].cond})
    IN  /\ IsAluOrLoad(instr) /\ IsLocal(instr.out) /\ ~HasSideEffects(instr)
        /\ (checkIt = 0 \/ ~ReadsLocal(m.ins[checkIt], instr.out.n))

\* a write of a Local that is overwritten before the next read in the block
IsOverwrittenWrite(m, it) ==
    LET instr == m.ins[it]
        checkIt == FirstOf({j \in (it + 1)..Len(m.ins) :
                               \/ ReadsLocal(m.ins[j], instr.out.n)
                               \/ WritesLocal(m.ins[j], instr.out.n) /\ ~m.ins[j].cond})
    IN  /\ IsAluOrLoad(instr) /\ IsLocal(instr.out) /\ ~HasSideEffects(instr)
        /\ checkIt # 0
        /\ ~ReadsLocal(m.ins[checkIt], instr.out.n)

\* one iteration of the loop, as the walk records it: where the walker
\* stood, how many instructions there were, and what the iteration did
Iteration(m, it, erased, steppedBack) ==
    [it |-> it, len |-> Len(m.ins), erased |-> erased, steppedBack |-> steppedBack]

\* the loop of eliminateDeadCode with the walker at it; the result is the
\* Method, the value of hasChanged and the iterations made
RECURSIVE EliminateDeadCodeFrom(_, _, _, _)
EliminateDeadCodeFrom(m, it, hasChanged, walk) ==
    IF it > Len(m.ins) THEN [m |-> m, changed |-> hasChanged, walk |-> walk]
    ELSE LET instr == m.ins[it]
             erasing == Append(walk, Iteration(m, it, TRUE, FALSE))
         IN
         IF IsNeverReadOutput(m, instr)
         THEN EliminateDeadCodeFrom(WalkerErase(m, it), WalkerPreviousInBlock(it), TRUE,
                                    Append(walk, Iteration(m, it, TRUE, TRUE)))
         ELSE IF IsMergeableMove(m, instr)
         THEN EliminateDeadCodeFrom(
                  WalkerErase(MergeLocals(m, Readers(m.users, instr.out.n),
                                          instr.out.n, instr.args[1].n), it),
                  it, TRUE, erasing)
         ELSE IF IsUnusedUniformRead(m, instr)
         THEN EliminateDeadCodeFrom(
                  WalkerErase([m EXCEPT !.uniformsUsed = @ \ {instr.out.n}], it), it, TRUE,
                  erasing)
         ELSE IF IsUnusedRegisterWrite(m, it)
         THEN EliminateDeadCodeFrom(WalkerErase(m, it), it, TRUE, erasing)
         ELSE IF IsOverwrittenWrite(m, it)
         THEN EliminateDeadCodeFrom(WalkerErase(m, it), it, TRUE, erasing)
         ELSE EliminateDeadCodeFrom(m, it + 1, hasChanged,
                                    Append(walk, Iteration(m, it, FALSE, FALSE)))

EliminateDeadCode(m) == EliminateDeadCodeFrom(m, 1, FALSE, <<>>)

----------------------------------------------------------------------------
(***************************************************************************)
(* optimizations::propagateMoves (Eliminator.cpp)                          *)
(***************************************************************************)
\* normalization::toImmediate: the literal fits a small immediate (-16..15)
ToImmediate(lit) == lit <= 15 \/ lit >= WordModulus - 16

\* Register::triggersReadOfR4: a write to a special-function register makes
\* the hardware load its result into r4
TriggersReadOfR4(r) == r \in {"sfu_recip"}

CheckRegisterAlwaysPassing(src, inst) == TRUE

\* createRegisterCheck: may the read of the register src be moved past inst?
CheckRegister(src, inst) ==
    IF ~IsRegister(src) THEN TRUE
    ELSE IF src.n = "r4"
         THEN ~(IsRegister(inst.out) /\ TriggersReadOfR4(inst.out.n))
    ELSE IF src.n = "r5"
         THEN ~(IsRegister(inst.out) /\ IsReplicationRegister(inst.out.n))
         ELSE FALSE

\* the move at it is one whose source may be propagated
IsPropagatableMove(instr) ==
    /\ instr.kind = "move" /\ ~instr.cond /\ ~instr.unpack
    /\ instr.out # NO_VALUE
    /\ ~(IsRegister(instr.args[1]) /\ HasSideEffectsOnRead(instr.args[1].n))
    /\ ~IsRegister(instr.out)
    /\ (ReadsLiteral(instr) => ToImmediate(instr.args[1].lit))
    /\ ~ReadsLocal(instr, "GROUP_IDS")

\* the inner loop of propagateMoves with the second walker at it2
RECURSIVE PropagateInto(_, _, _, _, _, _)
PropagateInto(m, it2, oldValue, newValue, remainingLocalReads, replaced) ==
    IF it2 > Len(m.ins) \/ remainingLocalReads = {}
    THEN [m |-> m, changed |-> replaced]
    ELSE LET replacedThisInstruction == oldValue \in Range(m.ins[it2].args)
             m1 == IF replacedThisInstruction
                   THEN FoldConstants(ReplaceValue(m, it2, oldValue, newValue), it2)
                   ELSE m
             remaining == IF replacedThisInstruction
                          THEN remainingLocalReads \ {m.ins[it2].id}
                          ELSE remainingLocalReads
             nowReplaced == replaced \/ replacedThisInstruction
         IN  IF m1.ins[it2].out = oldValue
             THEN [m |-> m1, changed |-> nowReplaced]
             ELSE IF ~CheckRegister(newValue, m1.ins[it2])
             THEN [m |-> m1, changed |-> nowReplaced]
             ELSE PropagateInto(m1, it2 + 1, oldValue, newValue, remaining, nowReplaced)

\* the outer loop of propagateMoves with the walker at it
RECURSIVE PropagateMovesFrom(_, _, _)
PropagateMovesFrom(m, it, replaced) ==
    IF it > Len(m.ins) THEN [m |-> m, changed |-> replaced]
    ELSE IF IsPropagatableMove(m.ins[it])
    THEN LET oldValue == m.ins[it].out
             r == PropagateInto(m, it + 1, oldValue, m.ins[it].args[1],
                                Readers(m.users, oldValue.n), replaced)
         IN  PropagateMovesFrom(r.m, it + 1, r.changed)
    ELSE PropagateMovesFrom(m, it + 1, replaced)

PropagateMoves(m) == PropagateMovesFrom(m, 1, FALSE)

----------------------------------------------------------------------------
(***************************************************************************)
(* optimizations::eliminateRedundantMoves (Eliminator.cpp)                 *)
(***************************************************************************)
\* BasicBlock::findWalkerForInstruction: searches from start backwards to
\* the begin of the block, the label excluded; 0 if not found
FindWalkerForInstruction(ins, id, start) ==
    IF \E i \in 2..Min2(start, Len(ins)) : ins[i].id = id
    THEN CHOOSE i \in 2..Min2(start, Len(ins)) : ins[i].id = id
    ELSE 0

CanMoveInstruction(ins, source, destination) ==
    TouchesReplication(ins[source]) =>
        \A i \in (source + 1)..Len(ins) :
            (destination <= source \/ i < destination) => ~TouchesReplication(ins[i])

\* isNoReadBetween: no instruction after first and before second (or the end
\* of the block) reads or writes the register
IsNoReadBetween(ins, first, second, reg) ==
    \A i \in (first + 1)..Len(ins) :
        (second <= first \/ i < second) =>
            /\ ~ReadsRegister(ins[i], reg) /\ ~WritesRegister(ins[i], reg)
            /\ ~(reg = "vpm" /\ WritesRegister(ins[i], "vpm"))

IsCandidateMove(instr) ==
    /\ instr.kind = "move" /\ "PHI_NODE" \notin instr.deco
    /\ ~instr.unpack /\ ~instr.cond

\* the facts eliminateRedundantMoves collects about the move at it
MoveFacts(m, it) ==
    LET move == m.ins[it]
        src == move.args[1]
        sourceUsedOnce == GetSingleWriter(m, src) # 0 /\ CountReaders(m, src.n) = 1
        destUsedOnce == /\ IsLocal(move.out)
                        /\ GetSingleWriter(m, move.out) = it
                        /\ CountReaders(m, move.out.n) = 1
        readerId == IF IsLocal(move.out) /\ CountReaders(m, move.out.n) = 1
                    THEN CHOOSE id \in Readers(m.users, move.out.n) : TRUE
                    ELSE 0
        destinationReader == IF readerId = 0 THEN 0
                             ELSE FindWalkerForInstruction(m.ins, readerId, Len(m.ins))
        sourceWriter == IF GetSingleWriter(m, src) = 0 THEN 0
                        ELSE FindWalkerForInstruction(
                                 m.ins, m.ins[GetSingleWriter(m, src)].id, it)
    IN  [sourceUsedOnce |-> sourceUsedOnce,
         destUsedOnce |-> destUsedOnce,
         destUsedOnceWithoutLiteral |->
             destUsedOnce /\ ~ReadsLiteral(m.ins[IndexOfId(m.ins, readerId)]),
         destinationReader |-> destinationReader,
         sourceWriter |-> sourceWriter]

\* a move of a value onto itself without other side effects is removed
IsObsoleteMove(m, it) ==
    LET move == m.ins[it]
    IN  move.args[1] = move.out /\ ~HasSideEffects(move)

\* source written once and read once, destination read once: the reader
\* reads the source instead
IsReplaceableByInput(m, it) ==
    LET move == m.ins[it]
        f == MoveFacts(m, it)
    IN  /\ ~HasSideEffects(move)
        /\ f.sourceUsedOnce /\ f.destUsedOnceWithoutLiteral
        /\ f.destinationReader # 0

ReplaceByInput(m, it) ==
    LET move == m.ins[it]
        reader == MoveFacts(m, it).destinationReader
        m1 == ReplaceValue(m, reader, move.out, move.args[1])
        m2 == IF m1.ins[reader].kind = "move"
              THEN [m1 EXCEPT !.ins[reader].deco = @ \cup (move.deco \ {"PHI_NODE"})]
              ELSE m1
    IN  WalkerErase(m2, it)

\* the move writes a register and its source is used only by it: the
\* instruction calculating the source writes the register itself
IsReplaceableBySourceWriter(m, it) ==
    LET move == m.ins[it]
        f == MoveFacts(m, it)
    IN  /\ IsRegister(move.out)
        /\ f.sourceUsedOnce /\ f.sourceWriter # 0
        /\ ~HasSideEffects(m.ins[f.sourceWriter])
        /\ CanMoveInstruction(m.ins, f.sourceWriter, it)
        /\ ~WritesRegister(move, "rep_all") /\ ~WritesRegister(move, "rep_quad")
        /\ (~HasSideEffectsOnWrite(move.out.n) \/ ~m.ins[f.sourceWriter].cond)

ReplaceBySourceWriter(m, it) ==
    LET move == m.ins[it]
        w == MoveFacts(m, it).sourceWriter
        writer == m.ins[w]
        \* it.reset(sourceWriter->release()): the move is destroyed, the
        \* writer object takes its place
        m1 == [m EXCEPT !.ins[it] = writer,
                        !.users = RemoveInstructionUses(@, move)]
        \* sourceWriter->erase(): the emptied position is removed
        m2 == [m1 EXCEPT !.ins = RemoveAt(@, w)]
        m3 == SetOutput(m2, it - 1, move.out)
    IN  [m3 EXCEPT !.ins[it - 1].setf = move.setf]

\* the move reads a register and its output is read once: the reader reads
\* the register itself
IsReplaceableByRegister(m, it) ==
    LET move == m.ins[it]
        f == MoveFacts(m, it)
        reader == m.ins[f.destinationReader]
    IN  /\ IsRegister(move.args[1])
        /\ f.destUsedOnce
        /\ (f.destUsedOnceWithoutLiteral \/ move.args[1].n \in {"unif", "vpm", "r5"})
        /\ f.destinationReader # 0
        /\ ~move.setf
        /\ ~reader.unpack /\ ~reader.cond
        /\ ~ReadsRegister(reader, move.args[1].n)
        /\ IsNoReadBetween(m.ins, it, f.destinationReader, move.args[1].n)
        /\ ~(move.args[1] = Reg("vpm") /\ reader.out = Reg("vpm"))

RECURSIVE SetArgumentsReading(_, _, _, _, _)
SetArgumentsReading(m, i, oldLocal, newInput, k) ==
    IF k > Len(m.ins[i].args) THEN m
    ELSE IF m.ins[i].args[k] = Loc(oldLocal)
         THEN SetArgumentsReading(SetArgument(m, i, k, newInput), i, oldLocal, newInput, k + 1)
         ELSE SetArgumentsReading(m, i, oldLocal, newInput, k + 1)

ReplaceByRegister(m, it) ==
    LET move == m.ins[it]
        reader == MoveFacts(m, it).destinationReader
    IN  WalkerErase(SetArgumentsReading(m, reader, move.out.n, move.args[1], 1), it)

\* the loop of eliminateRedundantMoves with the walker at it; after an erase
\* the walker steps back and forth again, so it stays at it
RECURSIVE EliminateRedundantMovesFrom(_, _, _)
EliminateRedundantMovesFrom(m, it, codeChanged) ==
    IF it > Len(m.ins) THEN [m |-> m, changed |-> codeChanged]
    ELSE IF ~IsCandidateMove(m.ins[it])
    THEN EliminateRedundantMovesFrom(m, it + 1, codeChanged)
    ELSE IF IsObsoleteMove(m, it)
    THEN EliminateRedundantMovesFrom(WalkerErase(m, it), it, TRUE)
    ELSE IF IsReplaceableByInput(m, it)
    THEN EliminateRedundantMovesFrom(ReplaceByInput(m, it), it, TRUE)
    ELSE IF IsReplaceableBySourceWriter(m, it)
    THEN EliminateRedundantMovesFrom(ReplaceBySourceWriter(m, it), it, TRUE)
    ELSE IF IsReplaceableByRegister(m, it)
    THEN EliminateRedundantMovesFrom(ReplaceByRegister(m, it), it, TRUE)
    ELSE EliminateRedundantMovesFrom(m, it + 1, codeChanged)

EliminateRedundantMoves(m) == EliminateRedundantMovesFrom(m, 1, FALSE)

----------------------------------------------------------------------------
(***************************************************************************)
(* optimizations::eliminateRedundantBitOp (Eliminator.cpp)                 *)
(***************************************************************************)
\* config.additionalOptions.maxCommonExpressionDinstance
MaxCommonExpressionDistance == 3

CanReplaceBitOp(op) == ~op.unpack /\ ~ReadsRegisterWithSideEffects(op)

HasSingleByteExtractionWriter(m, v) ==
    /\ GetSingleWriter(m, v) # 0
    /\ m.ins[GetSingleWriter(m, v)].kind = "move"
    /\ ~m.ins[GetSingleWriter(m, v)].cond
    /\ m.ins[GetSingleWriter(m, v)].unpack

\* the lambdas foundAnd (first = "and") and foundOr (first = "or"): a later
\* AND/OR reading both out and in becomes a move of out or of in
RECURSIVE FoundBitOp(_, _, _, _, _, _)
FoundBitOp(m, first, out, in, it, instructionsRemaining) ==
    IF instructionsRemaining <= 0 \/ it > Len(m.ins) THEN m
    ELSE LET op2 == m.ins[it]
             matches == /\ op2.kind = "op" /\ op2.op \in {"and", "or"}
                        /\ CanReplaceBitOp(op2)
                        /\ ReadsLocal(op2, out) /\ ReadsLocal(op2, in)
             source == IF op2.op = first THEN Loc(out) ELSE Loc(in)
             m1 == IF matches
                   THEN WalkerReset(m, it, CopyExtrasFrom(Move(op2.out, source), op2))
                   ELSE m
         IN  FoundBitOp(m1, first, out, in, it + 1, instructionsRemaining - 1)

\* the monotone laws applied for the AND or OR at it
ApplyMonotoneLaws(m, it) ==
    LET op == m.ins[it]
        out == op.out.n
        m1 == IF IsLocal(op.args[1])
              THEN FoundBitOp(m, op.op, out, op.args[1].n, it + 1,
                              MaxCommonExpressionDistance)
              ELSE m
        m2 == IF Len(op.args) > 1 /\ IsLocal(op.args[2])
              THEN FoundBitOp(m1, op.op, out, op.args[2].n, it + 1,
                              MaxCommonExpressionDistance)
              ELSE m1
    IN  IF IsLocal(op.out) /\ ~ReadsLocal(op, out) THEN m2 ELSE m

\* an AND with the byte mask 255 of a value extracted from a single byte
\* becomes a move of that value
RemoveByteMask(m, it) ==
    LET op == m.ins[it]
        masks == {k \in DOMAIN op.args : GetConstantValue(m, op.args[k]) = Lit(255)}
        k == CHOOSE j \in masks : \A l \in masks : j <= l
        otherArg == op.args[3 - k]
    IN  IF masks # {} /\ Len(op.args) = 2 /\ HasSingleByteExtractionWriter(m, otherArg)
        THEN WalkerReset(m, it, CopyExtrasFrom(Move(op.out, otherArg), op))
        ELSE m

\* the bits of a word shifted right by the literal that are not filled in
ShiftMask(lit) == Pow(2, WordBits - ShiftOffset(lit)) - 1

IsPowerTwo(n) == \E e \in 0..WordBits : n = Pow(2, e)

\* every reader of the ASR at it is an AND with a constant mask within mask
AllReadersMask(m, it, mask) ==
    LET op == m.ins[it]
    IN  \A id \in Readers(m.users, op.out.n) :
            LET userOp == m.ins[IndexOfId(m.ins, id)]
                others == {k \in DOMAIN userOp.args : userOp.args[k] # op.out}
                otherLit == IF others = {} THEN NO_VALUE
                            ELSE GetConstantValue(m, userOp.args[CHOOSE k \in others : TRUE])
            IN  /\ userOp.kind = "op" /\ userOp.op = "and" /\ ~userOp.unpack
                /\ IsLiteral(otherLit)
                /\ IsPowerTwo(otherLit.lit + 1) /\ otherLit.lit <= mask

\* an arithmetic shift whose sign bits no reader looks at becomes a logical
\* shift; undefMask is what (1u << 32) - 1u evaluates to
DowngradeArithmeticShift(m, it, undefMask) ==
    LET op == m.ins[it]
        lit == IF Len(op.args) > 1 /\ IsLiteral(op.args[2]) THEN op.args[2].lit ELSE -1
        mask == IF lit < 0 THEN AllOnes
                ELSE IF ShiftOffset(lit) = 0 THEN undefMask
                ELSE ShiftMask(lit)
    IN  IF mask # AllOnes /\ IsLocal(op.out) /\ AllReadersMask(m, it, mask)
        THEN [m EXCEPT !.ins[it].op = "shr"]
        ELSE m

\* (a << k) >> k becomes a AND mask, without use-tracking (mutation of
\* ReplaceShiftPair)
ReplaceShiftPairUntracked(m, it) ==
    LET op == m.ins[it]
        w == GetSingleWriter(m, op.args[1])
    IN  IF /\ Len(op.args) > 1 /\ IsLiteral(op.args[2]) /\ ShiftOffset(op.args[2].lit) # 0
           /\ w # 0 /\ m.ins[w].kind = "op" /\ m.ins[w].op = "shl"
           /\ Len(m.ins[w].args) > 1
           /\ GetConstantValue(m, m.ins[w].args[2]) = GetConstantValue(m, op.args[2])
        THEN [m EXCEPT !.ins[it].args = <<m.ins[w].args[1], Lit(ShiftMask(op.args[2].lit))>>,
                       !.ins[it].op = "and"]
        ELSE m

\* (a << k) >> k becomes a AND mask
ReplaceShiftPair(m, it) ==
    LET op == m.ins[it]
        w == GetSingleWriter(m, op.args[1])
    IN  IF /\ Len(op.args) > 1 /\ IsLiteral(op.args[2]) /\ ShiftOffset(op.args[2].lit) # 0
           /\ w # 0 /\ m.ins[w].kind = "op" /\ m.ins[w].op = "shl"
           /\ Len(m.ins[w].args) > 1
           /\ GetConstantValue(m, m.ins[w].args[2]) = GetConstantValue(m, op.args[2])
        THEN LET input == m.ins[w].args[1]
                 m1 == ReplaceValue(m, it, op.args[1], input)
                 m2 == ReplaceValue(m1, it, m1.ins[it].args[2],
                                    Lit(ShiftMask(op.args[2].lit)))
             IN  [m2 EXCEPT !.ins[it].op = "and"]
        ELSE m

\* the loop of eliminateRedundantBitOp with the walker at it
RECURSIVE EliminateRedundantBitOpFrom(_, _, _)
EliminateRedundantBitOpFrom(m, it, undefMask) ==
    IF it > Len(m.ins) THEN m
    ELSE LET op == m.ins[it]
             m1 == IF op.kind = "op" /\ ~op.cond
                   THEN CASE op.op = "and" -> RemoveByteMask(ApplyMonotoneLaws(m, it), it)
                          [] op.op = "or" -> ApplyMonotoneLaws(m, it)
                          [] op.op = "asr" /\ ~op.setf ->
                                 DowngradeArithmeticShift(m, it, undefMask)
                          [] OTHER -> m
                   ELSE m
             op1 == m1.ins[it]
             m2 == IF op.kind = "op" /\ ~op.cond /\ op1.kind = "op" /\ op1.op = "shr"
                      /\ ~op1.unpack /\ ~op1.setf
                   THEN ReplaceShiftPair(m1, it)
                   ELSE m1
         IN  EliminateRedundantBitOpFrom(m2, it + 1, undefMask)

\* eliminateRedundantBitOp returns whether it replaced anything
EliminateRedundantBitOp(m, undefMask) ==
    LET r == EliminateRedundantBitOpFrom(m, 1, undefMask)
    IN  [m |-> r, changed |-> r.ins # m.ins]

----------------------------------------------------------------------------
(***************************************************************************)
(* optimizations::rewriteConstantSFUCall (Eliminator.cpp)                  *)
(***************************************************************************)
\* intermediate::Nop with its DelayType
Nop(type) == Instr("nop", type, NO_VALUE, <<>>, FALSE, FALSE, FALSE, {})

\* Register::isSpecialFunctionsUnit
IsSpecialFunctionsUnit(r) == r \in {"sfu_recip"}

REG_SFU_OUT == "r4"

\* periphery::precalculateSFU: the result of the unit for a constant input,
\* here the reciprocal of the word in the scale of the words
PrecalculateSFU(reg, v) ==
    IF reg = "sfu_recip" /\ IsLiteral(v) /\ v.lit # 0
    THEN Lit(AllOnes \div v.lit)
    ELSE NO_VALUE

\* the first loop: up to numDelays WAIT_SFU placeholders from it on are erased
RECURSIVE EraseDelays(_, _, _)
EraseDelays(m, it, numDelays) ==
    IF numDelays = 0 \/ it > Len(m.ins) THEN [m |-> m, it |-> it]
    ELSE IF m.ins[it].kind = "nop" /\ m.ins[it].op = "WAIT_SFU"
    THEN EraseDelays(WalkerErase(m, it), it, numDelays - 1)
    ELSE EraseDelays(m, it + 1, numDelays)

\* the second loop: the first instruction from it on that reads the result
\* register, Len + 1 at the end of the block
FirstReaderFrom(ins, it) ==
    LET readers == {i \in it..Len(ins) : ReadsRegister(ins[i], REG_SFU_OUT)}
    IN  IF readers = {} THEN Len(ins) + 1 ELSE FirstOf(readers)

NoThrow == ""

\* rewriteConstantSFUCall with the walker at it: the Method it leaves, the
\* walker it returns and the fatal error it raises
RewriteConstantSFUCall(m, it) ==
    LET inst == m.ins[it]
        unchanged == [m |-> m, it |-> it, thrown |-> NoThrow]
    IN  IF ~(IsRegister(inst.out) /\ IsSpecialFunctionsUnit(inst.out.n)) THEN unchanged
        ELSE IF inst.cond THEN unchanged
        ELSE IF inst.setf \/ ReadsRegisterWithSideEffects(inst) THEN unchanged
        ELSE IF inst.unpack THEN unchanged
        ELSE LET constantValue == Precalculate(m, inst, 3)
                 result == IF constantValue # NO_VALUE
                           THEN PrecalculateSFU(inst.out.n, constantValue)
                           ELSE NO_VALUE
                 delays == EraseDelays(WalkerErase(m, it), it, 2)
                 reader == FirstReaderFrom(delays.m.ins, delays.it)
             IN  IF result = NO_VALUE THEN unchanged
                 ELSE IF delays.it > Len(delays.m.ins)
                 THEN [m |-> delays.m, it |-> delays.it,
                       thrown |-> "Failed to find both NOPs for waiting for SFU result"]
                 ELSE IF reader > Len(delays.m.ins)
                 THEN [m |-> delays.m, it |-> reader,
                       thrown |-> "Failed to find the reading of the SFU result"]
                 ELSE [m |-> WalkerReset(delays.m, reader,
                                CopyExtrasFrom(Move(delays.m.ins[reader].out, result),
                                               delays.m.ins[reader])),
                       it |-> reader - 1, thrown |-> NoThrow]

----------------------------------------------------------------------------
(***************************************************************************)
(* The optimization passes as steps of the optimizer, and the front-ends   *)
(* of the specifications                                                   *)
(***************************************************************************)
MaxPasses == 2

\* the bookkeeping of one pass run: result r of the pass named pass
PassDone(pass, r) ==
    /\ SetMethod(r.m)
    /\ passLog' = Append(passLog, [pass |-> pass, changed |-> r.changed])
    /\ previousInstructions' = instructions
    /\ irPc' = "optimize"
    /\ UNCHANGED <<frontEndInstructions, notIR>>

RunEliminateDeadCode ==
    /\ Len(instructions) > 1 /\ Len(passLog) < MaxPasses
    /\ LET r == EliminateDeadCode(TheMethod) IN
          /\ SetMethod(r.m)
          /\ passLog' = Append(passLog, [pass |-> "eliminateDeadCode",
                                         changed |-> r.changed, walk |-> r.walk])
          /\ locals' = CleanLocals(locals, r.m.users)
    /\ previousInstructions' = instructions
    /\ irPc' = "optimize"
    /\ UNCHANGED <<frontEndInstructions, notIR>>

RunPropagateMoves ==
    /\ Len(instructions) > 1 /\ Len(passLog) < MaxPasses
    /\ PassDone("propagateMoves", PropagateMoves(TheMethod))
    /\ UNCHANGED locals

RunEliminateRedundantMoves ==
    /\ Len(instructions) > 1 /\ Len(passLog) < MaxPasses
    /\ PassDone("eliminateRedundantMoves", EliminateRedundantMoves(TheMethod))
    /\ UNCHANGED locals

RunEliminateRedundantBitOp ==
    /\ Len(instructions) > 1 /\ Len(passLog) < MaxPasses
    /\ \E undefMask \in {0, AllOnes} :
          PassDone("eliminateRedundantBitOp", EliminateRedundantBitOp(TheMethod, undefMask))
    /\ UNCHANGED locals

\* the front-end never reads a Local that is neither a Parameter nor written
\* unconditionally by an earlier instruction
ReadsOnlyWritten(ins, t) ==
    \A k \in DOMAIN t.args :
        IsLocal(t.args[k]) =>
            \/ t.args[k].n \in Parameters
            \/ \E i \in DOMAIN ins : ins[i].out = t.args[k] /\ ~ins[i].cond

\* ---- moves ----
MaxMoveInstructions == 5

MoveTemplates ==
    {Op("add", Loc("a"), Loc("x"), Lit(1)),
     Op("add", Loc("b"), Loc("a"), Lit(1)),
     Move(Loc("a"), Lit(5)),
     Move(Loc("b"), Loc("a")),
     Move(Loc("a"), Loc("b")),
     Move(Loc("b"), Loc("x")),
     Move(Loc("a"), Loc("a")),
     Move(Reg("vpm"), Loc("a")),
     Move(Reg("vpm"), Loc("b")),
     Op("add", Reg("vpm"), Loc("b"), Lit(1)),
     Move(Loc("b"), Reg("unif")),
     Move(Loc("b"), Reg("r5")),
     Move(Reg("r5"), Loc("x"))}

AppendToEndMoves ==
    AppendToEnd({t \in MoveTemplates : ReadsOnlyWritten(instructions, t)},
                MaxMoveInstructions)

NextMoves == AppendToEndMoves \/ RunPropagateMoves \/ RunEliminateRedundantMoves

\* ---- propagation of moves from registers ----
MaxPropagateInstructions == 5

\* the registers read without side effect: the SFU/TMU result register,
\* accumulator r5 and the element number
PropagateSources == {Reg("r4"), Reg("r5"), Reg("elem_num")}

PropagateTemplates ==
    {Move(Loc("a"), r) : r \in PropagateSources}
    \cup {Move(Loc("b"), Loc("a")),
          Move(Reg("vpm"), Loc("a")),
          Op("add", Loc("c"), Loc("a"), Loc("a")),
          Move(Loc("c"), Loc("x")),
          Move(Reg("sfu_recip"), Loc("x")),
          Move(Reg("sfu_recip"), Loc("a")),
          Move(Reg("r5"), Loc("x")),
          Move(Reg("rep_all"), Loc("a"))}

AppendToEndPropagate ==
    AppendToEnd({t \in PropagateTemplates : ReadsOnlyWritten(instructions, t)},
                MaxPropagateInstructions)

NextPropagate == AppendToEndPropagate \/ RunPropagateMoves

\* ---- the monotone laws of AND and OR ----
MaxBitOpInstructions == 5

BitOpTemplates ==
    {Move(Loc("a"), Loc("x")),
     Move(Loc("a"), Loc("y")),
     Move(Loc("c"), Loc("y"))}
    \cup {Op(o, Loc("c"), Loc("a"), Loc("y")) : o \in {"and", "or"}}
    \cup {Op(o, Loc("c"), Loc("x"), Loc("y")) : o \in {"and", "or"}}
    \cup {Op(o, Loc("d"), Loc("c"), Loc("a")) : o \in {"and", "or"}}
    \cup {Op(o, Loc("d"), Loc("x"), Loc("c")) : o \in {"and", "or"}}

AppendToEndBitOp ==
    AppendToEnd({t \in BitOpTemplates : ReadsOnlyWritten(instructions, t)},
                MaxBitOpInstructions)

NextBitOp == AppendToEndBitOp \/ RunEliminateRedundantBitOp

\* ---- calls of the special-function unit ----
MaxSFUInstructions == 5

SFUTemplates ==
    {Move(Reg("sfu_recip"), Lit(3)),
     Move(Reg("sfu_recip"), Loc("x")),
     Nop("WAIT_SFU"),
     Move(Loc("c"), Loc("x")),
     Move(Loc("c"), Reg("r4")),
     Op("add", Loc("c"), Reg("r4"), Lit(1)),
     Move(Reg("vpm"), Loc("c"))}

AppendToEndSFU ==
    AppendToEnd({t \in SFUTemplates : ReadsOnlyWritten(instructions, t)},
                MaxSFUInstructions)

\* an optimization step calls rewriteConstantSFUCall with the walker on some
\* instruction; a fatal error ends the compilation
ApplyRewriteConstantSFUCall ==
    /\ Len(instructions) > 1 /\ passLog = <<>>
    /\ \E it \in 2..Len(instructions) :
          LET r == RewriteConstantSFUCall(TheMethod, it) IN
          /\ SetMethod(r.m)
          /\ passLog' = <<[pass |-> "rewriteConstantSFUCall",
                           changed |-> r.m.ins # instructions,
                           it |-> it, returned |-> r.it, thrown |-> r.thrown]>>
    /\ previousInstructions' = instructions
    /\ irPc' = "optimize"
    /\ UNCHANGED <<locals, frontEndInstructions, notIR>>

NextSFU == AppendToEndSFU \/ ApplyRewriteConstantSFUCall

\* ---- dead code ----
MaxDeadCodeInstructions == 4

DeadCodeTemplates ==
    {Op("add", Loc("a"), Loc("x"), Lit(1)),
     Op("add", Loc("a"), Loc("a"), Lit(1)),
     Move(Loc("a"), Lit(5)),
     [Move(Loc("a"), Lit(5)) EXCEPT !.cond = TRUE],
     [Op("add", Loc("b"), Loc("x"), Lit(1)) EXCEPT !.setf = TRUE],
     Move(Loc("b"), Loc("a")),
     Move(Reg("vpm"), Loc("x")),
     Move(Reg("vpm"), Loc("a")),
     Move(Reg("vpm"), Loc("b")),
     Move(Loc("GROUP_ID_X"), Reg("unif")),
     Move(Loc("UNIFORM_ADDRESS"), Reg("unif")),
     Op("add", Reg("vpm"), Loc("GROUP_ID_X"), Lit(1)),
     Move(Reg("r5"), Loc("x")),
     [Move(Reg("r5"), Loc("x")) EXCEPT !.cond = TRUE],
     Op("add", Reg("r5"), Reg("r5"), Lit(1)),
     Move(Reg("vpm"), Reg("r5")),
     Move(Loc("b"), Reg("r5"))}

AppendToEndDeadCode ==
    AppendToEnd({t \in DeadCodeTemplates : ReadsOnlyWritten(instructions, t)},
                MaxDeadCodeInstructions)

NextDeadCode == AppendToEndDeadCode \/ RunEliminateDeadCode \/ RunPropagateMoves

\* ---- simplifyOperation ----
MaxSimplifyInstructions == 3

SimplifyOperands == {Loc("a"), Loc("x"), Lit(0), Lit(AllOnes)}

\* the instructions in front of the operation: they define the Locals it reads
SimplifyPreludeTemplates ==
    {Move(Loc("a"), Lit(0)), Move(Loc("a"), Lit(AllOnes)), Move(Loc("a"), Loc("x")),
     Move(Loc("c"), Loc("x")), Move(Reg("r5"), Loc("x")),
     Rotation(Loc("a"), Loc("x")), Rotation(Loc("a"), Lit(3)),
     [Op("sub", Loc("b"), Loc("x"), Lit(3)) EXCEPT !.setf = TRUE]}

\* the instructions simplifyOperation is called on
SimplifyTemplates ==
    {Op(o, Loc("b"), p, q) : o \in {"and", "or", "xor", "add", "sub", "asr"},
                             p \in SimplifyOperands, q \in SimplifyOperands}
    \cup {Op(o, Loc("a"), Loc("a"), q) : o \in {"and", "or", "xor", "add", "sub"},
                                        q \in SimplifyOperands}
    \cup {Op(o, Loc("a"), p, Loc("a")) : o \in {"and", "or", "xor", "add", "sub"},
                                        p \in SimplifyOperands}
    \cup {UnaryOp("not", Loc("b"), Loc("x")), UnaryOp("not", Loc("a"), Loc("a")),
          Move(Loc("a"), Loc("a")), Move(Loc("x"), Loc("x")),
          Rotation(Loc("b"), Lit(3)), Rotation(Loc("b"), Loc("x")),
          Op("xor", Loc("b"), Loc("c"), Loc("c")),
          Op("and", Reg("r5"), Reg("r5"), Reg("r5")),
          Op("or", Loc("b"), Reg("r5"), Reg("r5")),
          [Op("and", Loc("b"), Loc("x"), Lit(0)) EXCEPT !.cond = TRUE],
          [Op("add", Loc("b"), Loc("x"), Lit(0)) EXCEPT !.cond = TRUE],
          [Op("add", Loc("b"), Loc("x"), Lit(0)) EXCEPT !.setf = TRUE],
          [Op("or", Loc("b"), Loc("x"), Lit(0)) EXCEPT !.deco = {"UNSIGNED_RESULT"}]}

\* the front-end appends the defining instructions, then the operation
AppendToEndSimplify ==
    AppendToEnd({t \in (IF Len(instructions) + 1 < MaxSimplifyInstructions
                        THEN SimplifyPreludeTemplates ELSE SimplifyTemplates) :
                    ReadsOnlyWritten(instructions, t)},
                MaxSimplifyInstructions)

\* an optimization step calls simplifyOperation with the walker on some
\* instruction
ApplySimplifyOperation ==
    /\ Len(instructions) > 1 /\ Len(passLog) < MaxPasses
    /\ \E it \in 2..Len(instructions) :
       \E outcome \in SimplifyOperationOutcomes(TheMethod, it) :
          /\ SetMethod(outcome.m)
          /\ passLog' = Append(passLog,
                [pass |-> "simplifyOperation",
                 changed |-> outcome.m.ins # instructions,
                 it |-> it,
                 returned |-> outcome.it,
                 readDestroyed |-> outcome.readDestroyed,
                 crashed |-> outcome.crashed])
    /\ previousInstructions' = instructions
    /\ irPc' = "optimize"
    /\ UNCHANGED <<locals, frontEndInstructions, notIR>>

NextSimplify == AppendToEndSimplify \/ ApplySimplifyOperation

\* ---- use tracking under passes and walker edits ----
MaxUseInstructions == 3

UseTemplates ==
    {Op("and", Loc("a"), Loc("x"), Loc("y")),
     Op("and", Loc("b"), Loc("a"), Loc("x")),
     Op("or", Loc("b"), Loc("a"), Loc("x")),
     Op("or", Loc("a"), Loc("x"), Loc("x")),
     Op("shl", Loc("a"), Loc("x"), Lit(3)),
     Op("shr", Loc("b"), Loc("a"), Lit(3)),
     Op("asr", Loc("a"), Loc("x"), Lit(3)),
     Op("and", Loc("b"), Loc("a"), Lit(15)),
     Op("and", Loc("b"), Loc("a"), Lit(255)),
     [Move(Loc("a"), Loc("x")) EXCEPT !.unpack = TRUE],
     Op("add", Loc("b"), Loc("a"), Loc("a")),
     Move(Loc("a"), Lit(5)),
     Move(Loc("b"), Loc("a")),
     Move(Reg("vpm"), Loc("b")),
     Move(Reg("vpm"), Loc("a"))}

\* the instructions a pass under development inserts or substitutes
EditTemplates ==
    {Op("add", Loc("b"), Loc("a"), Loc("a")),
     Move(Loc("a"), Loc("b")),
     Move(Reg("vpm"), Loc("x"))}

EditValues == {Loc("a"), Loc("x"), Lit(5)}

AppendToEndUses == AppendToEnd(UseTemplates, MaxUseInstructions)

\* the bookkeeping of one edit made through the walker
EditDone(m) ==
    /\ SetMethod(m)
    /\ passLog' = Append(passLog, [pass |-> "edit", changed |-> TRUE])
    /\ previousInstructions' = instructions
    /\ irPc' = "optimize"
    /\ locals' = locals \cup UNION {OwnedLocalsOf(m.ins[i]) : i \in DOMAIN m.ins}
    /\ UNCHANGED <<frontEndInstructions, notIR>>

FreshId == CHOOSE id \in 1..(Len(instructions) + 1) :
               \A i \in DOMAIN instructions : instructions[i].id # id

EraseInstruction ==
    /\ Len(passLog) < MaxPasses
    /\ \E it \in 2..Len(instructions) : EditDone(WalkerErase(TheMethod, it))

EmplaceInstruction ==
    /\ Len(passLog) < MaxPasses /\ Len(instructions) < MaxUseInstructions
    /\ \E it \in 2..(Len(instructions) + 1), t \in EditTemplates :
          EditDone(WalkerEmplace(TheMethod, it, t, FreshId))

ResetInstruction ==
    /\ Len(passLog) < MaxPasses
    /\ \E it \in 2..Len(instructions), t \in EditTemplates :
          EditDone(WalkerReset(TheMethod, it, t))

RewriteArgument ==
    /\ Len(passLog) < MaxPasses
    /\ \E it \in 2..Len(instructions), v \in EditValues :
          \E k \in DOMAIN instructions[it].args :
              EditDone(SetArgument(TheMethod, it, k, v))

RewriteValue ==
    /\ Len(passLog) < MaxPasses
    /\ \E it \in 2..Len(instructions), old \in EditValues, new \in EditValues :
          EditDone(ReplaceValue(TheMethod, it, old, new))

RewriteOutput ==
    /\ Len(passLog) < MaxPasses
    /\ \E it \in 2..Len(instructions), v \in {Loc("a"), Loc("b"), Reg("vpm")} :
          EditDone(SetOutput(TheMethod, it, v))

NextUses ==
    \/ AppendToEndUses
    \/ RunEliminateDeadCode \/ RunPropagateMoves
    \/ RunEliminateRedundantMoves \/ RunEliminateRedundantBitOp
    \/ EraseInstruction \/ EmplaceInstruction \/ ResetInstruction
    \/ RewriteArgument \/ RewriteValue \/ RewriteOutput

----------------------------------------------------------------------------
(***************************************************************************)
(* Method: basic blocks, the cached control-flow graph and                 *)
(* isLocallyLimited (Method.cpp)                                           *)
(*                                                                         *)
(* A basic block is the sequence of its instructions, its BranchLabel      *)
(* first.  Of an instruction only what the block operations look at is     *)
(* kept: whether it is a label, a branch (with target and condition) or    *)
(* something else, and whether it uses the Local isLocallyLimited is       *)
(* asked about.  Blocks are well-formed: an unconditional branch is the    *)
(* last instruction of its block, and label names are unique.              *)
(***************************************************************************)
BranchLabel(label) ==
    [kind |-> "label", label |-> label, target |-> "", unconditional |-> FALSE,
     uses |-> FALSE]

Branch(target, unconditional, uses) ==
    [kind |-> "branch", label |-> "", target |-> target,
     unconditional |-> unconditional, uses |-> uses]

Other(uses) ==
    [kind |-> "other", label |-> "", target |-> "", unconditional |-> FALSE,
     uses |-> uses]

DEFAULT_BLOCK == "%start_of_function"

LabelNames == {"L1", "L2"}

GetLabel(bb) == bb[1].label

LabelsOf(bbs) == {GetLabel(bbs[k]) : k \in DOMAIN bbs}

\* Method::findBasicBlock(label): the index of the first block with the label, 0 for nullptr
FindBasicBlock(bbs, label) ==
    LET found == {k \in DOMAIN bbs : GetLabel(bbs[k]) = label}
    IN  IF found = {} THEN 0 ELSE FirstOf(found)

\* an unconditional branch ends its block
IsWellFormedBlock(bb) ==
    \A i \in DOMAIN bb :
        (bb[i].kind = "branch" /\ bb[i].unconditional) => i = Len(bb)

\* BasicBlock::empty(): the block holds nothing but its label
IsEmptyBlock(bb) == Len(bb) = 1

\* BasicBlock::fallsThroughToNextBlock(): the block does not end in an
\* unconditional branch
FallsThroughToNextBlock(bb) ==
    ~(bb[Len(bb)].kind = "branch" /\ bb[Len(bb)].unconditional)

BranchTargetsOf(bb) == {bb[i].target : i \in {j \in DOMAIN bb : bb[j].kind = "branch"}}

\* ---- analysis::ControlFlowGraph ----
Edge(from, to, implicit) == [from |-> from, to |-> to, implicit |-> implicit]

\* the edges leaving the block at index k: one per explicit branch target
\* that is a block of the Method, one for the fall-through
EdgesOfBlock(bbs, k) ==
    {Edge(GetLabel(bbs[k]), t, FALSE) : t \in BranchTargetsOf(bbs[k]) \cap LabelsOf(bbs)}
    \cup (IF k < Len(bbs) /\ FallsThroughToNextBlock(bbs[k])
          THEN {Edge(GetLabel(bbs[k]), GetLabel(bbs[k + 1]), TRUE)}
          ELSE {})

\* ControlFlowGraph::createCFG(method)
CreateCFG(bbs) == UNION {EdgesOfBlock(bbs, k) : k \in DOMAIN bbs}

\* the edges of the given blocks (leaving or entering them) are brought up
\* to date with the block list, all other edges are left as they are
RecomputeEdgesOf(edges, bbs, labels) ==
    {e \in edges : e.from \notin labels /\ e.to \notin labels}
    \cup {e \in CreateCFG(bbs) : e.from \in labels \/ e.to \in labels}

\* the label of the block in front of the block with the given label, if any
PreviousLabels(bbs, label) ==
    {GetLabel(bbs[k]) : k \in {j \in DOMAIN bbs : j < Len(bbs) /\ GetLabel(bbs[j + 1]) = label}}

\* ControlFlowGraph::updateOnBlockInsertion: the new block is added, its
\* edges and the fall-through of the block in front of it are recomputed
UpdateOnBlockInsertion(edges, bbs, label) ==
    RecomputeEdgesOf(edges, bbs, {label} \cup PreviousLabels(bbs, label))

\* ControlFlowGraph::updateOnBlockRemoval, with bbs the block list without
\* the block: its edges are removed, the block that was in front of it is
\* adjusted
UpdateOnBlockRemoval(edges, bbs, label, previous) ==
    RecomputeEdgesOf({e \in edges : e.from # label /\ e.to # label}, bbs, previous)

\* ControlFlowGraph::updateOnBranchInsertion and updateOnBranchRemoval: the
\* edges the branch contributes to its block are added or removed
UpdateOnBranchChange(edges, bbs, label) ==
    {e \in edges : e.from # label}
    \cup {e \in CreateCFG(bbs) : e.from = label}

NoCFG == [cached |-> FALSE, edges |-> {}]

\* Method::getCFG()
GetCFGOf(bbs, c) == IF ~c.cached THEN [cached |-> TRUE, edges |-> CreateCFG(bbs)] ELSE c

UpdateCFGOnBlockInsertion(c, bbs, label) ==
    IF ~c.cached THEN c
    ELSE [c EXCEPT !.edges = UpdateOnBlockInsertion(c.edges, bbs, label)]

UpdateCFGOnBlockRemoval(c, bbs, label, previous) ==
    IF ~c.cached THEN c
    ELSE [c EXCEPT !.edges = UpdateOnBlockRemoval(c.edges, bbs, label, previous)]

UpdateCFGOnBranchInsertion(c, bbs, label) ==
    IF ~c.cached THEN c
    ELSE [c EXCEPT !.edges = UpdateOnBranchChange(c.edges, bbs, label)]

UpdateCFGOnBranchRemoval(c, bbs, label) ==
    IF ~c.cached THEN c
    ELSE [c EXCEPT !.edges = UpdateOnBranchChange(c.edges, bbs, label)]

\* ---- the block operations, on a Method [bbs, cfg] ----
CheckAndCreateDefaultBasicBlock(m) ==
    IF m.bbs = <<>>
    THEN LET bbs == << <<BranchLabel(DEFAULT_BLOCK)>> >>
         IN  [bbs |-> bbs, cfg |-> UpdateCFGOnBlockInsertion(m.cfg, bbs, DEFAULT_BLOCK)]
    ELSE m

\* Method::appendToEnd(instr)
AppendToEndOfMethod(m, instr) ==
    IF instr.kind = "label"
    THEN LET bbs == Append(m.bbs, <<instr>>)
         IN  [bbs |-> bbs, cfg |-> UpdateCFGOnBlockInsertion(m.cfg, bbs, instr.label)]
    ELSE LET d == CheckAndCreateDefaultBasicBlock(m)
             n == Len(d.bbs)
             bbs == [d.bbs EXCEPT ![n] = Append(@, instr)]
         IN  [bbs |-> bbs,
              cfg |-> IF d.cfg.cached /\ instr.kind = "branch"
                      THEN UpdateCFGOnBranchInsertion(d.cfg, bbs, GetLabel(bbs[n]))
                      ELSE d.cfg]

\* Method::createAndInsertNewBlock(position, labelName)
CreateAndInsertNewBlockAt(m, position, labelName) ==
    LET bbs == InsertAt(m.bbs, position, <<BranchLabel(labelName)>>)
    IN  [bbs |-> bbs, cfg |-> UpdateCFGOnBlockInsertion(m.cfg, bbs, labelName)]

\* InstructionWalker::emplace in block b in front of position i
WalkerEmplaceInBlock(m, b, i, instr) ==
    LET bbs == [m.bbs EXCEPT ![b] = InsertAt(@, i, instr)]
    IN  [bbs |-> bbs,
         cfg |-> IF instr.kind = "branch"
                 THEN UpdateCFGOnBranchInsertion(m.cfg, bbs, GetLabel(bbs[b]))
                 ELSE m.cfg]

\* InstructionWalker::erase of the instruction at position i of block b
WalkerEraseInBlock(m, b, i) ==
    LET bbs == [m.bbs EXCEPT ![b] = RemoveAt(@, i)]
    IN  [bbs |-> bbs,
         cfg |-> IF m.bbs[b][i].kind = "branch"
                 THEN UpdateCFGOnBranchRemoval(m.cfg, bbs, GetLabel(bbs[b]))
                 ELSE m.cfg]

\* step 2 of emplaceLabel: the instructions of block b from position i on
\* are moved to the end of block newBlock, one at a time
RECURSIVE MoveInstructionsToBlock(_, _, _, _)
MoveInstructionsToBlock(m, b, i, newBlock) ==
    IF i > Len(m.bbs[b]) THEN m
    ELSE MoveInstructionsToBlock(
            WalkerEraseInBlock(
                WalkerEmplaceInBlock(m, newBlock, Len(m.bbs[newBlock]) + 1, m.bbs[b][i]),
                b, i),
            b, i, newBlock)

\* Method::emplaceLabel(it, label), the walker at position i of block b
EmplaceLabelAt(m, b, i, label) ==
    IF m.bbs = <<>>
    THEN LET bbs == << <<BranchLabel(label)>> >>
         IN  [bbs |-> bbs, cfg |-> UpdateCFGOnBlockInsertion(m.cfg, bbs, label)]
    ELSE LET isStartOfBlock == i = 1
             blockIt == IF isStartOfBlock THEN b ELSE b + 1
             bbs == InsertAt(m.bbs, blockIt, <<BranchLabel(label)>>)
             inserted == [bbs |-> bbs, cfg |-> UpdateCFGOnBlockInsertion(m.cfg, bbs, label)]
         IN  IF isStartOfBlock THEN inserted
             ELSE MoveInstructionsToBlock(inserted, b, i, blockIt)

\* BasicBlock::forPredecessors, counting the explicit jumps to the block
CountExplicitJumps(bbs, label) ==
    Cardinality(UNION {{<<k, i>> : i \in {j \in DOMAIN bbs[k] :
                                             /\ bbs[k][j].kind = "branch"
                                             /\ bbs[k][j].target = label}}
                       : k \in DOMAIN bbs})

RemoveBlockAtUnchecked(m, b, overwriteUsages) ==
    IF b \notin DOMAIN m.bbs
    THEN [m |-> m, removed |-> FALSE, thrown |-> FALSE]
    ELSE LET label == GetLabel(m.bbs[b])
             bbs == RemoveAt(m.bbs, b)
         IN  [m |-> [bbs |-> bbs,
                     cfg |-> UpdateCFGOnBlockRemoval(m.cfg, bbs, label,
                                                     PreviousLabels(m.bbs, label))],
              removed |-> TRUE, thrown |-> FALSE]

RemoveBlockAtThrowing(m, b, overwriteUsages) ==
    IF b \notin DOMAIN m.bbs
    THEN [m |-> m, removed |-> FALSE, thrown |-> FALSE]
    ELSE IF ~overwriteUsages /\ ~IsEmptyBlock(m.bbs[b])
    THEN [m |-> m, removed |-> FALSE, thrown |-> FALSE]
    ELSE IF ~overwriteUsages /\ CountExplicitJumps(m.bbs, GetLabel(m.bbs[b])) > 0
    THEN [m |-> m, removed |-> FALSE, thrown |-> TRUE]
    ELSE LET label == GetLabel(m.bbs[b])
             bbs == RemoveAt(m.bbs, b)
         IN  [m |-> [bbs |-> bbs,
                     cfg |-> UpdateCFGOnBlockRemoval(m.cfg, bbs, label,
                                                     PreviousLabels(m.bbs, label))],
              removed |-> TRUE, thrown |-> FALSE]

\* Method::removeBlock(block, overwriteUsages), the block at index b; index 0
\* stands for a block that is not in the Method's list (an empty block no
\* branch of the Method names), which the loop over the list does not find
RemoveBlockAt(m, b, overwriteUsages) ==
    IF b \notin DOMAIN m.bbs
    THEN [m |-> m, removed |-> FALSE, thrown |-> FALSE]
    ELSE IF ~overwriteUsages
       /\ (~IsEmptyBlock(m.bbs[b]) \/ CountExplicitJumps(m.bbs, GetLabel(m.bbs[b])) > 0)
    THEN [m |-> m, removed |-> FALSE, thrown |-> FALSE]
    ELSE LET label == GetLabel(m.bbs[b])
             bbs == RemoveAt(m.bbs, b)
         IN  [m |-> [bbs |-> bbs,
                     cfg |-> UpdateCFGOnBlockRemoval(m.cfg, bbs, label,
                                                     PreviousLabels(m.bbs, label))],
              removed |-> TRUE, thrown |-> FALSE]

\* Method::moveBlock(origin, dest): the block at index origin is spliced in
\* front of the block at index dest (Len + 1 for end())
MoveBlockTo(m, origin, dest) ==
    LET without == RemoveAt(m.bbs, origin)
        target == IF dest > origin THEN dest - 1 ELSE dest
    IN  [bbs |-> InsertAt(without, target, m.bbs[origin]), cfg |-> m.cfg]

\* ---- InstructionWalker over the blocks: <<block index, position>> ----
IsStartOfBlock(it) == it[2] = 1

IsEndOfBlock(bbs, it) == it[2] > Len(bbs[it[1]])

IsEndOfMethod(bbs, it) == IsEndOfBlock(bbs, it) /\ it[1] = Len(bbs)

\* InstructionWalker::nextInMethod(): the next instruction of the block, or
\* the label of the block following it
NextInMethod(bbs, it) ==
    LET next == IF IsEndOfBlock(bbs, it) THEN it ELSE <<it[1], it[2] + 1>>
    IN  IF IsEndOfBlock(bbs, next) /\ next[1] < Len(bbs)
        THEN <<next[1] + 1, 1>>
        ELSE next

\* Local::getUsers(): the instructions using the Local
GetUsers(bbs) ==
    UNION {{<<k, i>> : i \in {j \in DOMAIN bbs[k] : bbs[k][j].uses}} : k \in DOMAIN bbs}

\* ---- Method::isLocallyLimited ----
\* Every scan returns, besides what the code returns, the number of
\* removeUser calls it made (examined) and the depth of the calls of
\* removeUsagesInBasicBlock nested below it (depth).

\* removeUsagesInBasicBlock with the walker at it (bb.walk() on entry);
\* remainingUsers and usageRangeLeft are passed by reference and so are
\* returned with the result
RECURSIVE RemoveUsagesInBasicBlock(_, _, _, _)
RemoveUsagesInBasicBlock(bbs, it, remainingUsers, usageRangeLeft) ==
    IF ~(usageRangeLeft >= 0 /\ ~IsEndOfMethod(bbs, it))
    THEN [result |-> remainingUsers = {}, remainingUsers |-> remainingUsers,
          usageRangeLeft |-> usageRangeLeft, examined |-> 0, depth |-> 0]
    ELSE LET users == remainingUsers \ {it}
             left == usageRangeLeft - 1
             instr == bbs[it[1]][it[2]]
             successor == IF instr.kind = "branch"
                          THEN FindBasicBlock(bbs, instr.target) ELSE 0
             inner == RemoveUsagesInBasicBlock(bbs, <<successor, 1>>, users, left)
             rest == RemoveUsagesInBasicBlock(
                         bbs, NextInMethod(bbs, it),
                         IF successor = 0 THEN users ELSE inner.remainingUsers,
                         IF successor = 0 THEN left ELSE inner.usageRangeLeft)
         IN  IF successor = 0
             THEN [rest EXCEPT !.examined = @ + 1]
             ELSE IF inner.result
             THEN [inner EXCEPT !.examined = @ + 1, !.depth = @ + 1]
             ELSE [rest EXCEPT !.examined = @ + 1 + inner.examined,
                               !.depth = Max2(@, inner.depth + 1)]

\* the loop of isLocallyLimited handing a copy of its budget to the scans
\* of the branch targets: what they use is not taken from its own budget
RECURSIVE IsLocallyLimitedFromByValue(_, _, _, _)
IsLocallyLimitedFromByValue(bbs, curIt, remainingUsers, usageRangeLeft) ==
    IF ~(usageRangeLeft >= 0 /\ ~IsEndOfMethod(bbs, curIt))
    THEN [result |-> remainingUsers = {}, examined |-> 0, depth |-> 0]
    ELSE LET users == remainingUsers \ {curIt}
             left == usageRangeLeft - 1
             instr == bbs[curIt[1]][curIt[2]]
             successor == IF instr.kind = "branch"
                          THEN FindBasicBlock(bbs, instr.target) ELSE 0
             inner == RemoveUsagesInBasicBlock(bbs, <<successor, 1>>, users, left)
             called == [result |-> FALSE, examined |-> 1 + inner.examined,
                        depth |-> inner.depth + 1]
             rest == IsLocallyLimitedFromByValue(
                         bbs, NextInMethod(bbs, curIt),
                         IF successor = 0 THEN users ELSE inner.remainingUsers,
                         left)
         IN  IF successor = 0
             THEN IF instr.kind = "branch" /\ instr.unconditional
                  THEN [result |-> FALSE, examined |-> 1, depth |-> 0]
                  ELSE [rest EXCEPT !.examined = @ + 1]
             ELSE IF inner.result
             THEN [called EXCEPT !.result = TRUE]
             ELSE IF instr.unconditional
             THEN called
             ELSE [rest EXCEPT !.examined = @ + called.examined,
                               !.depth = Max2(@, called.depth)]

\* the loop of isLocallyLimited with the walker at curIt
RECURSIVE IsLocallyLimitedFrom(_, _, _, _)
IsLocallyLimitedFrom(bbs, curIt, remainingUsers, usageRangeLeft) ==
    IF ~(usageRangeLeft >= 0 /\ ~IsEndOfMethod(bbs, curIt))
    THEN [result |-> remainingUsers = {}, examined |-> 0, depth |-> 0]
    ELSE LET users == remainingUsers \ {curIt}
             left == usageRangeLeft - 1
             instr == bbs[curIt[1]][curIt[2]]
             successor == IF instr.kind = "branch"
                          THEN FindBasicBlock(bbs, instr.target) ELSE 0
             inner == RemoveUsagesInBasicBlock(bbs, <<successor, 1>>, users, left)
             called == [result |-> FALSE, examined |-> 1 + inner.examined,
                        depth |-> inner.depth + 1]
             rest == IsLocallyLimitedFrom(
                         bbs, NextInMethod(bbs, curIt),
                         IF successor = 0 THEN users ELSE inner.remainingUsers,
                         IF successor = 0 THEN left ELSE inner.usageRangeLeft)
         IN  IF successor = 0
             THEN IF instr.kind = "branch" /\ instr.unconditional
                  THEN [result |-> FALSE, examined |-> 1, depth |-> 0]
                  ELSE [rest EXCEPT !.examined = @ + 1]
             ELSE IF inner.result
             THEN [called EXCEPT !.result = TRUE]
             ELSE IF instr.unconditional
             THEN called
             ELSE [rest EXCEPT !.examined = @ + called.examined,
                               !.depth = Max2(@, called.depth)]

\* isLocallyLimited up to its loop: the user in front of the position is
\* removed (one more removeUser call), then the loop runs
IsLocallyLimitedScan(bbs, curIt, threshold) ==
    IF ~IsStartOfBlock(curIt)
    THEN [IsLocallyLimitedFrom(bbs, curIt, GetUsers(bbs) \ {<<curIt[1], curIt[2] - 1>>},
                               threshold)
             EXCEPT !.examined = @ + 1]
    ELSE IsLocallyLimitedFrom(bbs, curIt, GetUsers(bbs), threshold)

IsLocallyLimitedWiderRange(bbs, curIt, threshold) ==
    IsLocallyLimitedFrom(bbs, curIt,
        IF ~IsStartOfBlock(curIt)
        THEN GetUsers(bbs) \ {<<curIt[1], curIt[2] - 1>>} ELSE GetUsers(bbs),
        threshold + 1).result

\* Method::isLocallyLimited(curIt, locale, threshold)
IsLocallyLimited(bbs, curIt, threshold) == IsLocallyLimitedScan(bbs, curIt, threshold).result

\* ---- the blocks held in the variables ----
TheBlocks == [bbs |-> basicBlocks, cfg |-> cfg]

SetBlocks(m) == basicBlocks' = m.bbs /\ cfg' = m.cfg

NumInstructions(bbs) == SumSeq([k \in DOMAIN bbs |-> Len(bbs[k])])

UnusedLabels == LabelNames \ LabelsOf(basicBlocks)

NoQuery ==
    [asked |-> FALSE, it |-> <<0, 0>>, threshold |-> 0, result |-> FALSE,
     examined |-> 0, depth |-> 0]

NoRemoval ==
    [called |-> FALSE, block |-> 0, overwriteUsages |-> FALSE, result |-> FALSE,
     thrown |-> FALSE,
     before |-> [bbs |-> <<>>, cfg |-> NoCFG]]

InitBlocks ==
    /\ basicBlocks = <<>>
    /\ cfg = NoCFG
    /\ lastQuery = NoQuery
    /\ lastRemoval = NoRemoval

\* Method::appendToEnd(instr) by the front-end, before any analysis asks
\* about the blocks; an unconditional branch ends its block
AppendToEndBlocks(templates, maxBlocks, maxLen) ==
    /\ ~lastQuery.asked /\ ~lastRemoval.called
    /\ \E t \in templates \cup {BranchLabel(l) : l \in UnusedLabels} :
          LET m == AppendToEndOfMethod(TheBlocks, t) IN
          /\ Len(m.bbs) <= maxBlocks
          /\ NumInstructions(m.bbs) <= maxLen
          /\ \A k \in DOMAIN m.bbs : IsWellFormedBlock(m.bbs[k])
          /\ SetBlocks(m)
    /\ UNCHANGED <<lastQuery, lastRemoval, notBlocks>>

\* ---- the CFG under block operations ----
MaxBlocks == 3

MaxBlockInstructions == 5

BlockTemplates ==
    {Other(FALSE)}
    \cup {Branch(t, u, FALSE) : t \in LabelNames \cup {DEFAULT_BLOCK}, u \in BOOLEAN}

AppendToEndCFG == AppendToEndBlocks(BlockTemplates, MaxBlocks, MaxBlockInstructions)

GetCFG ==
    /\ basicBlocks # <<>> /\ ~lastRemoval.called
    /\ cfg' = GetCFGOf(basicBlocks, cfg)
    /\ UNCHANGED <<basicBlocks, lastQuery, lastRemoval, notBlocks>>

CreateAndInsertNewBlock ==
    /\ Len(basicBlocks) < MaxBlocks
    /\ NumInstructions(basicBlocks) < MaxBlockInstructions
    /\ \E position \in 1..(Len(basicBlocks) + 1), labelName \in UnusedLabels :
          SetBlocks(CreateAndInsertNewBlockAt(TheBlocks, position, labelName))
    /\ UNCHANGED <<lastQuery, lastRemoval, notBlocks>>

EmplaceLabel ==
    /\ basicBlocks # <<>>
    /\ Len(basicBlocks) < MaxBlocks
    /\ NumInstructions(basicBlocks) < MaxBlockInstructions
    /\ \E b \in DOMAIN basicBlocks, label \in UnusedLabels :
          \E i \in 1..(Len(basicBlocks[b]) + 1) :
              SetBlocks(EmplaceLabelAt(TheBlocks, b, i, label))
    /\ UNCHANGED <<lastQuery, lastRemoval, notBlocks>>

RemoveBlock ==
    /\ \E b \in DOMAIN basicBlocks, overwriteUsages \in BOOLEAN :
          LET r == RemoveBlockAt(TheBlocks, b, overwriteUsages) IN
          /\ r.removed
          /\ SetBlocks(r.m)
    /\ UNCHANGED <<lastQuery, lastRemoval, notBlocks>>

MoveBlock ==
    /\ \E origin \in DOMAIN basicBlocks, dest \in 1..(Len(basicBlocks) + 1) :
          SetBlocks(MoveBlockTo(TheBlocks, origin, dest))
    /\ UNCHANGED <<lastQuery, lastRemoval, notBlocks>>

\* a pass inserts a branch through a walker
EmplaceBranch ==
    /\ NumInstructions(basicBlocks) < MaxBlockInstructions
    /\ \E b \in DOMAIN basicBlocks, t \in {x \in BlockTemplates : x.kind = "branch"} :
          \E i \in 2..(Len(basicBlocks[b]) + 1) :
              LET m == WalkerEmplaceInBlock(TheBlocks, b, i, t) IN
              /\ IsWellFormedBlock(m.bbs[b])
              /\ SetBlocks(m)
    /\ UNCHANGED <<lastQuery, lastRemoval, notBlocks>>

\* a pass erases a branch through a walker
EraseBranch ==
    /\ \E b \in DOMAIN basicBlocks :
          \E i \in {j \in DOMAIN basicBlocks[b] : basicBlocks[b][j].kind = "branch"} :
              SetBlocks(WalkerEraseInBlock(TheBlocks, b, i))
    /\ UNCHANGED <<lastQuery, lastRemoval, notBlocks>>

NextCFG ==
    \/ AppendToEndCFG \/ GetCFG \/ CreateAndInsertNewBlock \/ EmplaceLabel
    \/ RemoveBlock \/ MoveBlock \/ EmplaceBranch \/ EraseBranch

\* ---- removeBlock asked of the blocks the front-end built ----
MaxRemovalInstructions == 4

AppendToEndRemoval ==
    AppendToEndBlocks(BlockTemplates, MaxRemovalInstructions, MaxRemovalInstructions)

\* removeBlock is called for a block of the Method or for a foreign block (0)
CallRemoveBlock ==
    /\ basicBlocks # <<>>
    /\ \E b \in {0} \cup DOMAIN basicBlocks, overwriteUsages \in BOOLEAN :
          LET r == RemoveBlockAt(TheBlocks, b, overwriteUsages) IN
          /\ SetBlocks(r.m)
          /\ lastRemoval' = [called |-> TRUE, block |-> b,
                              overwriteUsages |-> overwriteUsages,
                              result |-> r.removed, thrown |-> r.thrown,
                                     before |-> TheBlocks]
    /\ UNCHANGED <<lastQuery, notBlocks>>

NextRemoval == AppendToEndRemoval \/ GetCFG \/ CallRemoveBlock

\* ---- isLocallyLimited asked about the blocks the front-end built ----
MaxScanInstructions == 4

MaxThreshold == 2

ScanTemplates ==
    {Other(u) : u \in BOOLEAN}
    \cup {Branch(t, TRUE, FALSE) : t \in LabelNames}
    \cup {Branch(t, FALSE, u) : t \in LabelNames, u \in BOOLEAN}

AppendToEndScan == AppendToEndBlocks(ScanTemplates, MaxScanInstructions, MaxScanInstructions)

AskIsLocallyLimited ==
    /\ \E b \in DOMAIN basicBlocks, threshold \in 0..MaxThreshold :
          \E i \in DOMAIN basicBlocks[b] :
              lastQuery' = [asked |-> TRUE, it |-> <<b, i>>, threshold |-> threshold,
                            result |-> IsLocallyLimited(basicBlocks, <<b, i>>, threshold),
                            examined |-> IsLocallyLimitedScan(basicBlocks, <<b, i>>,
                                                              threshold).examined,
                            depth |-> IsLocallyLimitedScan(basicBlocks, <<b, i>>,
                                                           threshold).depth]
    /\ UNCHANGED <<basicBlocks, cfg, lastRemoval, notBlocks>>

NextLocallyLimited == AppendToEndScan \/ AskIsLocallyLimited

----------------------------------------------------------------------------
(***************************************************************************)
(* optimizations::eliminateReturn (Eliminator.cpp), applied by an          *)
(* optimization step to one instruction after the other                    *)
(***************************************************************************)
Return ==
    [kind |-> "return", label |-> "", target |-> "", unconditional |-> FALSE,
     uses |-> FALSE]

LAST_BLOCK == "%end_of_function"

\* InstructionWalker::reset(instr) at position it: the instruction is
\* replaced, a cached CFG learns of a branch that goes or comes
WalkerResetInBlock(m, it, instr) ==
    LET bbs == [m.bbs EXCEPT ![it[1]][it[2]] = instr]
    IN  [bbs |-> bbs,
         cfg |-> IF instr.kind = "branch" \/ m.bbs[it[1]][it[2]].kind = "branch"
                 THEN UpdateCFGOnBranchInsertion(m.cfg, bbs, GetLabel(bbs[it[1]]))
                 ELSE m.cfg]

EliminateReturnAlwaysCreating(m, it) ==
    IF m.bbs[it[1]][it[2]].kind = "return"
    THEN WalkerResetInBlock(CreateAndInsertNewBlockAt(m, Len(m.bbs) + 1, LAST_BLOCK),
                            it, Branch(LAST_BLOCK, TRUE, FALSE))
    ELSE m

\* optimizations::eliminateReturn with the walker at position it
EliminateReturn(m, it) ==
    IF m.bbs[it[1]][it[2]].kind = "return"
    THEN LET target == FindBasicBlock(m.bbs, LAST_BLOCK)
             withTarget == IF target = 0
                           THEN CreateAndInsertNewBlockAt(m, Len(m.bbs) + 1, LAST_BLOCK)
                           ELSE m
         IN  WalkerResetInBlock(withTarget, it, Branch(LAST_BLOCK, TRUE, FALSE))
    ELSE m

MaxReturnBlocks == 3

MaxReturnInstructions == 5

ReturnTemplates ==
    {Other(FALSE), Return}
    \cup {Branch(t, u, FALSE) : t \in LabelNames, u \in BOOLEAN}
    \cup (IF FindBasicBlock(basicBlocks, LAST_BLOCK) = 0 /\ basicBlocks # <<>>
          THEN {BranchLabel(LAST_BLOCK)} ELSE {})

NotStarted == <<0, 0>>

\* the front-end builds the Method before the step runs
AppendToEndReturn ==
    /\ returnIt = NotStarted
    /\ AppendToEndBlocks(ReturnTemplates, MaxReturnBlocks, MaxReturnInstructions)

\* the step calls eliminateReturn for the instruction under its walker,
\* starting with the first instruction of the Method, and moves the walker on
ApplyEliminateReturn ==
    LET it == IF returnIt = NotStarted THEN <<1, 1>> ELSE returnIt IN
    /\ basicBlocks # <<>>
    /\ ~IsEndOfBlock(basicBlocks, it)
    /\ LET m == EliminateReturn(TheBlocks, it) IN
          /\ SetBlocks(m)
          /\ returnIt' = NextInMethod(m.bbs, it)
    /\ returnBefore' = IF returnIt = NotStarted THEN basicBlocks ELSE returnBefore
    /\ UNCHANGED <<lastQuery, lastRemoval, lastNeighbours, stackVars, memVars, irVars, nameVars>>

NextReturn == AppendToEndReturn \/ ApplyEliminateReturn

\* ---- the neighbours of a block in the order of the Method ----
\* A block is named by its place in basicBlocks, no block (nullptr) by 0.

\* Method::getNextBlockAfter: the loop over the blocks from the k-th on
RECURSIVE GetNextBlockAfterFrom(_, _, _, _)
GetNextBlockAfterFrom(bbs, block, k, returnNext) ==
    IF k > Len(bbs) THEN 0
    ELSE IF returnNext THEN k
    ELSE GetNextBlockAfterFrom(bbs, block, k + 1, k = block)

GetNextBlockAfter(bbs, block) == GetNextBlockAfterFrom(bbs, block, 1, FALSE)

\* what lies behind the last block, where a reverse iterator stepped back
\* from rbegin() points
PastTheEnd(bbs) == Len(bbs) + 1

\* Method::getPreviousBlock: the loop starts at rbegin(), the last block, and
\* steps with --it, which moves a reverse iterator towards the end of the
\* list.  The first pass compares the last block with the one asked about;
\* the step that follows leaves the list, and what the loop does from there
\* is undefined: it can meet rend() and return nothing, it can stop with an
\* error, and with returnNext set it can return what it finds behind the end.
GetPreviousBlockOutcomes(bbs, block) ==
    IF bbs = <<>>
    THEN {[returned |-> 0, crashed |-> FALSE]}
    ELSE LET returnNext == (Len(bbs) = block) IN
         {[returned |-> 0, crashed |-> FALSE], [returned |-> 0, crashed |-> TRUE]}
         \cup (IF returnNext
               THEN {[returned |-> PastTheEnd(bbs), crashed |-> FALSE]}
               ELSE {})

NoNeighbours ==
    [asked |-> FALSE, block |-> 0, previous |-> 0, next |-> 0, crashed |-> FALSE,
     before |-> <<>>]

MaxNeighbourBlocks == 3

MaxNeighbourInstructions == 4

\* the front-end builds the blocks before anything asks about them
AppendToEndNeighbours ==
    /\ ~lastNeighbours.asked
    /\ AppendToEndBlocks(ScanTemplates, MaxNeighbourBlocks, MaxNeighbourInstructions)

\* a step asks for both neighbours of a block of the Method
AskNeighbours ==
    /\ \E b \in DOMAIN basicBlocks :
       \E outcome \in GetPreviousBlockOutcomes(basicBlocks, b) :
          lastNeighbours' = [asked |-> TRUE, block |-> b,
                             previous |-> outcome.returned,
                             next |-> GetNextBlockAfter(basicBlocks, b),
                             crashed |-> outcome.crashed,
                             before |-> basicBlocks]
    /\ UNCHANGED <<blockVars, returnIt, returnBefore, stackVars, memVars, irVars, nameVars>>

NextNeighbours == AppendToEndNeighbours \/ AskNeighbours

----------------------------------------------------------------------------
(***************************************************************************)
(* Method::createLocalName called from Methods compiled in parallel        *)
(* (Method.cpp).  Names are sequences of characters.                       *)
(***************************************************************************)
MaxNameThreads == 2

MaxNameCalls == 3

NameThreads == 1..MaxNameThreads

\* the prefixes passed: "", "%", "a" and "a.1"
NamePrefixes == {<<>>, <<"%">>, <<"a">>, <<"a", ".", "1">>}

\* the postfixes passed: "", "x" and "%x"
NamePostfixes == {<<>>, <<"x">>, <<"%", "x">>}

DecimalDigits == <<"0", "1", "2", "3", "4", "5", "6", "7", "8", "9">>

\* std::to_string of an unsigned number
RECURSIVE to_string(_)
to_string(n) ==
    IF n < 10 THEN <<DecimalDigits[n + 1]>>
    ELSE to_string(n \div 10) \o <<DecimalDigits[(n % 10) + 1]>>

\* whether createLocalName takes a value of the counter for the name
UsesCounter(prefix, postfix) == postfix = <<>>

\* Method::createLocalName(prefix, postfix), index the value tmpIndex++ gave
CreateLocalNameOf(prefix, postfix, index) ==
    IF (prefix = <<>> \/ prefix = <<"%">>) /\ postfix = <<>>
    THEN <<"%", "t", "m", "p", ".">> \o to_string(index)
    ELSE IF prefix = <<>> \/ prefix = <<"%">>
    THEN IF postfix[1] = "%" THEN postfix ELSE <<"%">> \o postfix
    ELSE IF postfix = <<>>
    THEN (prefix \o <<".">>) \o to_string(index)
    ELSE (prefix \o <<".">>) \o postfix

NoNameCall == [pc |-> "idle", prefix |-> <<>>, postfix |-> <<>>, index |-> 0]

InitNames ==
    /\ tmpIndex = 0
    /\ nameCalls = [t \in NameThreads |-> NoNameCall]
    /\ returnedNames = <<>>

CallsMade ==
    Len(returnedNames) + Cardinality({t \in NameThreads : nameCalls[t].pc # "idle"})

FetchWithoutIncrement(t, prefix, postfix) ==
    /\ nameCalls' = [nameCalls EXCEPT ![t] =
            [pc |-> "fetched", prefix |-> prefix, postfix |-> postfix, index |-> tmpIndex]]
    /\ tmpIndex' = tmpIndex

\* tmpIndex++ on the std::atomic_size_t, when the name takes the counter:
\* the thread gets the old value and the counter is incremented in one step
FetchAndIncrement(t, prefix, postfix) ==
    /\ nameCalls' = [nameCalls EXCEPT ![t] =
            [pc |-> "fetched", prefix |-> prefix, postfix |-> postfix, index |-> tmpIndex]]
    /\ tmpIndex' = IF UsesCounter(prefix, postfix) THEN tmpIndex + 1 ELSE tmpIndex

\* a thread enters createLocalName and evaluates tmpIndex++
CreateLocalNameFetch ==
    /\ CallsMade < MaxNameCalls
    /\ \E t \in NameThreads, prefix \in NamePrefixes, postfix \in NamePostfixes :
          /\ nameCalls[t].pc = "idle"
          /\ FetchAndIncrement(t, prefix, postfix)
    /\ UNCHANGED <<returnedNames, notNames>>

\* the thread builds the name and returns it
CreateLocalNameReturn ==
    /\ \E t \in NameThreads :
          /\ nameCalls[t].pc = "fetched"
          /\ returnedNames' = Append(returnedNames,
                [thread |-> t,
                 generated |-> UsesCounter(nameCalls[t].prefix, nameCalls[t].postfix),
                 index |-> nameCalls[t].index,
                 name |-> CreateLocalNameOf(nameCalls[t].prefix, nameCalls[t].postfix,
                                            nameCalls[t].index)])
          /\ nameCalls' = [nameCalls EXCEPT ![t] = NoNameCall]
    /\ UNCHANGED <<tmpIndex, notNames>>

NextNames == CreateLocalNameFetch \/ CreateLocalNameReturn

----------------------------------------------------------------------------
(***************************************************************************)
(* Specifications                                                          *)
(***************************************************************************)
IdleStack ==
    /\ stackAllocations = <<>> /\ globalDataSize = 0 /\ stackPc = "open"
    /\ stackSize = NoStackSize

IdleMem == memInfos = <<>> /\ methodFlags = {} /\ memPc = "open"

IdleIR ==
    /\ instructions = <<>> /\ localUsers = {} /\ uniformsUsed = {} /\ locals = {}
    /\ frontEndInstructions = <<>> /\ previousInstructions = <<>>
    /\ passLog = <<>> /\ irPc = "build"

IdleBlocks ==
    /\ basicBlocks = <<>> /\ cfg = NoCFG /\ lastQuery = NoQuery
    /\ lastRemoval = NoRemoval

IdleNames ==
    /\ tmpIndex = 0 /\ nameCalls = [t \in NameThreads |-> NoNameCall]
    /\ returnedNames = <<>>

IdleWalks ==
    /\ returnIt = <<0, 0>> /\ returnBefore = <<>> /\ lastNeighbours = NoNeighbours

InitSpecStack == InitStack /\ IdleMem /\ IdleIR /\ IdleBlocks /\ IdleNames /\ IdleWalks

SpecStack == InitSpecStack /\ [][NextStack]_vars

InitSpecMem == InitMem /\ IdleStack /\ IdleIR /\ IdleBlocks /\ IdleNames /\ IdleWalks

SpecMem == InitSpecMem /\ [][NextMem]_vars

InitSpecSimplify == InitIR /\ IdleStack /\ IdleMem /\ IdleBlocks /\ IdleNames /\ IdleWalks

SpecSimplify == InitSpecSimplify /\ [][NextSimplify]_vars

InitSpecFold == InitIR /\ IdleStack /\ IdleMem /\ IdleBlocks /\ IdleNames /\ IdleWalks

SpecFold == InitSpecFold /\ [][NextFold]_vars

InitSpecMoves == InitIR /\ IdleStack /\ IdleMem /\ IdleBlocks /\ IdleNames /\ IdleWalks

SpecMoves == InitSpecMoves /\ [][NextMoves]_vars

InitSpecDeadCode == InitIR /\ IdleStack /\ IdleMem /\ IdleBlocks /\ IdleNames /\ IdleWalks

SpecDeadCode == InitSpecDeadCode /\ [][NextDeadCode]_vars

InitSpecUses == InitIR /\ IdleStack /\ IdleMem /\ IdleBlocks /\ IdleNames /\ IdleWalks

SpecUses == InitSpecUses /\ [][NextUses]_vars

InitSpecCFG == InitBlocks /\ IdleStack /\ IdleMem /\ IdleIR /\ IdleNames /\ IdleWalks

SpecCFG == InitSpecCFG /\ [][NextCFG]_vars

InitSpecRemoval == InitBlocks /\ IdleStack /\ IdleMem /\ IdleIR /\ IdleNames /\ IdleWalks

SpecRemoval == InitSpecRemoval /\ [][NextRemoval]_vars

InitSpecNames == InitNames /\ IdleStack /\ IdleMem /\ IdleIR /\ IdleBlocks /\ IdleWalks

SpecNames == InitSpecNames /\ [][NextNames]_vars

InitSpecReturn == InitBlocks /\ IdleStack /\ IdleMem /\ IdleIR /\ IdleNames /\ IdleWalks

SpecReturn == InitSpecReturn /\ [][NextReturn]_vars

InitSpecPropagate == InitIR /\ IdleStack /\ IdleMem /\ IdleBlocks /\ IdleNames /\ IdleWalks

SpecPropagate == InitSpecPropagate /\ [][NextPropagate]_vars

InitSpecBitOp == InitIR /\ IdleStack /\ IdleMem /\ IdleBlocks /\ IdleNames /\ IdleWalks

SpecBitOp == InitSpecBitOp /\ [][NextBitOp]_vars

InitSpecSFU == InitIR /\ IdleStack /\ IdleMem /\ IdleBlocks /\ IdleNames /\ IdleWalks

SpecSFU == InitSpecSFU /\ [][NextSFU]_vars

InitSpecNeighbours == InitBlocks /\ IdleStack /\ IdleMem /\ IdleIR /\ IdleNames /\ IdleWalks

SpecNeighbours == InitSpecNeighbours /\ [][NextNeighbours]_vars

InitSpecLocallyLimited == InitBlocks /\ IdleStack /\ IdleMem /\ IdleIR /\ IdleNames /\ IdleWalks

SpecLocallyLimited == InitSpecLocallyLimited /\ [][NextLocallyLimited]_vars

----------------------------------------------------------------------------
(***************************************************************************)
(* Claims on the cross-work-item dependency analysis                       *)
(***************************************************************************)
\* the object passes the early exits: it is not constant memory and its
\* classification allows shared reads and writes
IsReadWriteClassified(obj) ==
    ~obj.constant /\ obj.type \in {"VPM_SHARED_ACCESS", "RAM_READ_WRITE_VPM"}

PartsOf(obj) ==
    {obj.ranges[k].parts[j] : <<k, j>> \in
        {kj \in (DOMAIN obj.ranges) \X (1..MaxParts + 1) : kj[2] \in DOMAIN obj.ranges[kj[1]].parts}}

\* an identity value multiplied by a constant, or left-shifted by a constant
IsIdTimesConstant(part) ==
    /\ ~part.idDeco
    /\ \/ part.expr.code \in {"umul", "mul24"} /\
          {part.expr.a0, part.expr.a1} = {"id", "lit"}
       \/ part.expr.code = "shl" /\ part.expr.a0 = "id" /\ part.expr.a1 = "lit"

\* the constant factor of such an expression (a shift by k multiplies by 2^k)
ConstantFactorOf(part) ==
    LET c == IF part.expr.a0 = "lit" THEN part.expr.c0 ELSE part.expr.c1
    IN  IF part.expr.code = "shl" THEN Pow(2, c) ELSE c

IsUnrelatedToId(part) ==
    ~part.idDeco /\ part.expr.a0 # "id" /\ part.expr.a1 # "id"

WidthWithinFactor(obj) ==
    \A k \in DOMAIN obj.ranges : \A part \in PartsOf(obj) :
        obj.ranges[k].width <= ConstantFactorOf(part)

AllIdTimesConstant(obj) ==
    /\ obj.hasRanges
    /\ PartsOf(obj) # {}
    /\ \A part \in PartsOf(obj) : IsIdTimesConstant(part)

AllPlainAccesses(obj) ==
    \A k \in DOMAIN obj.ranges :
        obj.ranges[k].op \in {"read", "write"} /\ obj.ranges[k].parts # <<>>

\* C8 (as claimed): an object with a read-write classification whose recorded
\* address expressions are all id * constant (or id << constant) is reported
\* hazard-free iff the largest width touched by any access is at most the
\* smallest factor; an object with an expression unrelated to any identity
\* value is always reported hazardous.
C8_HazardFreeIffWidthWithinFactor ==
    \A i \in DOMAIN memInfos :
        LET obj == memInfos[i] IN
        /\ (IsReadWriteClassified(obj) /\ AllIdTimesConstant(obj)) =>
              (~MayHaveCrossWorkItemMemoryDependency(obj) <=> WidthWithinFactor(obj))
        /\ (IsReadWriteClassified(obj) /\ \E part \in PartsOf(obj) : IsUnrelatedToId(part)) =>
              MayHaveCrossWorkItemMemoryDependency(obj)

\* C8 (amended): the equivalence holds when, in addition, every access of the
\* object is a plain read or write with at least one recorded expression; an
\* object with a copy access, with an access range that belongs to no memory
\* instruction or with an access without recorded expressions is hazardous.
C8_Amended ==
    \A i \in DOMAIN memInfos :
        LET obj == memInfos[i] IN
        /\ (IsReadWriteClassified(obj) /\ AllIdTimesConstant(obj) /\ AllPlainAccesses(obj)) =>
              (~MayHaveCrossWorkItemMemoryDependency(obj) <=> WidthWithinFactor(obj))
        /\ (IsReadWriteClassified(obj) /\ AllIdTimesConstant(obj) /\ ~AllPlainAccesses(obj)) =>
              MayHaveCrossWorkItemMemoryDependency(obj)
        /\ (IsReadWriteClassified(obj) /\ \E part \in PartsOf(obj) : IsUnrelatedToId(part)) =>
              MayHaveCrossWorkItemMemoryDependency(obj)

\* an object with two expressions of different factors (4 and 8), accessed
\* with width 4, has been analysed and found hazard-free
C8_Witness ==
    /\ memPc = "mapped"
    /\ \E i \in DOMAIN memInfos :
          LET obj == memInfos[i] IN
          /\ IsReadWriteClassified(obj) /\ AllIdTimesConstant(obj) /\ AllPlainAccesses(obj)
          /\ {ConstantFactorOf(part) : part \in PartsOf(obj)} = {4, 8}
          /\ ~MayHaveCrossWorkItemMemoryDependency(obj)

\* C9: mapMemoryAccess sets NO_CROSS_ITEM_MEMORY_ACCESS iff every memory
\* object of the Method is classified hazard-free (vacuously for no objects),
\* and changes no other flag of the Method.
C9_FlagIffAllHazardFree ==
    /\ [](memPc = "mapped" =>
            (NO_CROSS_ITEM_MEMORY_ACCESS \in methodFlags <=>
                \A i \in DOMAIN memInfos : ~MayHaveCrossWorkItemMemoryDependency(memInfos[i])))
    /\ [][methodFlags' \ {NO_CROSS_ITEM_MEMORY_ACCESS} = methodFlags \ {NO_CROSS_ITEM_MEMORY_ACCESS}]_vars

\* two objects, one of them cleared by its address expressions, and the flag set
\* beside a flag of an earlier stage
C9_Witness ==
    /\ memPc = "mapped"
    /\ Len(memInfos) = 2
    /\ \E i \in DOMAIN memInfos : IsReadWriteClassified(memInfos[i])
    /\ methodFlags = {"OTHER_FLAG", NO_CROSS_ITEM_MEMORY_ACCESS}

----------------------------------------------------------------------------
NonLowered(allocs) == {i \in DOMAIN allocs : ~allocs[i].isLowered}

LargestAlignment(allocs) ==
    CHOOSE a \in {allocs[i].alignment : i \in DOMAIN allocs} :
        \A i \in DOMAIN allocs : allocs[i].alignment <= a

RangesDisjoint(a, b) ==
    a.offset + a.size <= b.offset \/ b.offset + b.size <= a.offset

\* C12: after calculateStackOffsets the byte ranges of all stack allocations
\* are pairwise disjoint: the non-lowered ones get increasing offsets in
\* declaration order, the offsets made up for the lowered ones start where
\* the non-lowered ones end and overlap neither those nor each other.
C12_StackRangesDisjoint ==
    stackPc = "done" =>
        /\ \A i \in DOMAIN stackAllocations : \A j \in DOMAIN stackAllocations :
              i # j => RangesDisjoint(stackAllocations[i], stackAllocations[j])
        /\ \A i \in NonLowered(stackAllocations) : \A j \in NonLowered(stackAllocations) :
              i < j => stackAllocations[i].offset < stackAllocations[j].offset
        /\ \A i \in NonLowered(stackAllocations) :
              \A j \in DOMAIN stackAllocations \ NonLowered(stackAllocations) :
                 stackAllocations[i].offset + stackAllocations[i].size
                    <= stackAllocations[j].offset

\* offsets have been assigned to a lowered allocation declared in front of
\* a non-lowered one
C12_Witness ==
    /\ stackPc = "done"
    /\ \E i \in DOMAIN stackAllocations : \E j \in DOMAIN stackAllocations :
          /\ i < j
          /\ stackAllocations[i].isLowered /\ ~stackAllocations[j].isLowered
          /\ stackAllocations[j].offset < stackAllocations[i].offset

----------------------------------------------------------------------------
----------------------------------------------------------------------------
(***************************************************************************)
(* Claims on constant folding                                              *)
(***************************************************************************)
\* the index of the only instruction of ins writing the Local v, else 0
OnlyWriterIn(ins, v) ==
    IF IsLocal(v) /\ Cardinality({i \in DOMAIN ins : ins[i].out = v}) = 1
    THEN CHOOSE i \in DOMAIN ins : ins[i].out = v
    ELSE 0

\* the literal word an operand stands for in the front-end's code: the
\* literal itself, or what the only writer of the Local computes (-1: none)
RECURSIVE LiteralOf(_, _, _)
LiteralOf(ins, v, depth) ==
    IF IsLiteral(v) THEN v.lit
    ELSE IF depth = 0 \/ OnlyWriterIn(ins, v) = 0 THEN -1
    ELSE LET w == ins[OnlyWriterIn(ins, v)]
             a0 == LiteralOf(ins, w.args[1], depth - 1)
             a1 == IF Len(w.args) > 1 THEN LiteralOf(ins, w.args[2], depth - 1) ELSE 0
         IN  IF w.kind \in {"load", "move"} THEN a0
             ELSE IF a0 < 0 \/ a1 < 0 THEN -1
             ELSE EvalOpCode(w.op, a0, a1)

\* the instruction now is the move foldConstants makes of the operation old
IsFoldOf(now, old, ins) ==
    LET a0 == LiteralOf(ins, old.args[1], 4)
        a1 == IF Len(old.args) > 1 THEN LiteralOf(ins, old.args[2], 4) ELSE 0
    IN  /\ old.kind = "op" /\ now.kind = "move"
        /\ a0 >= 0 /\ a1 >= 0
        /\ now.args = <<Lit(EvalOpCode(old.op, a0, a1))>>
        /\ now.out = old.out
        /\ now.cond = old.cond /\ now.setf = old.setf
        /\ now.deco = old.deco /\ now.unpack = old.unpack

\* C5: every instruction foldConstants has replaced is a move of the literal
\* that evaluating the op-code on the literals of the operands gives, with
\* the output, the execution condition and the other extras of the
\* operation it replaces.
C5_FoldedMoveCarriesResult ==
    irPc = "optimize" =>
        \A i \in DOMAIN instructions :
            instructions[i] # frontEndInstructions[i] =>
                IsFoldOf(instructions[i], frontEndInstructions[i], frontEndInstructions)

\* an AND of 0xFF and 0x0F has become a move of 0x0F, and a decorated
\* operation has been folded too
C5_Witness ==
    /\ irPc = "optimize"
    /\ \E i \in DOMAIN instructions :
          /\ frontEndInstructions[i].op = "and"
          /\ frontEndInstructions[i].args = <<Lit(255), Lit(15)>>
          /\ instructions[i].kind = "move"
          /\ instructions[i].args = <<Lit(15)>>
    /\ \E i \in DOMAIN instructions :
          /\ frontEndInstructions[i].kind = "op"
          /\ frontEndInstructions[i].deco # {}
          /\ instructions[i].kind = "move"

\* an XOR whose two operands are the same value
IsSelfXor(op) ==
    op.kind = "op" /\ op.op = "xor" /\ Len(op.args) = 2 /\ op.args[2] = op.args[1]

\* the operations the claim C21 says foldConstants leaves alone
IsExemptFromFolding(op) ==
    /\ op.kind = "op"
    /\ op.setf \/ op.unpack \/ IsSelfXor(op) \/ "CONSTANT_LOAD" \in op.deco

\* C21: foldConstants returns the instruction unchanged whenever the
\* operation sets flags, has an unpack mode, is an XOR of a value with
\* itself, or carries the constant-load decoration: no such operation is
\* replaced by a move, even if all of its operands are literals.
C21_ExemptOperationsAreNotFolded ==
    irPc = "optimize" =>
        \A i \in DOMAIN instructions :
            IsExemptFromFolding(frontEndInstructions[i]) =>
                instructions[i] = frontEndInstructions[i]

----------------------------------------------------------------------------
(***************************************************************************)
(* Claims on the use-tracking and on the eliminators                       *)
(***************************************************************************)
RecordedAsReader(name, id) == \E u \in localUsers : u.loc = name /\ u.id = id /\ u.r > 0

RecordedAsWriter(name, id) == \E u \in localUsers : u.loc = name /\ u.id = id /\ u.w > 0

InstructionReads(name, id) ==
    \E i \in DOMAIN instructions : instructions[i].id = id /\ ReadsLocal(instructions[i], name)

InstructionWrites(name, id) ==
    \E i \in DOMAIN instructions : instructions[i].id = id /\ WritesLocal(instructions[i], name)

KnownLocalNames ==
    {u.loc : u \in localUsers} \cup locals \cup Parameters \cup BuiltinLocals

KnownInstructionIds ==
    {u.id : u \in localUsers} \cup {instructions[i].id : i \in DOMAIN instructions}

\* C1: whatever instructions were inserted, erased, replaced or rewritten,
\* a Local is recorded as read by an instruction iff an argument of that
\* instruction, now in the Method, is the Local, and as written by it iff
\* its output is the Local.
C1_UsersAreTheReferences ==
    \A name \in KnownLocalNames, id \in KnownInstructionIds :
        /\ RecordedAsReader(name, id) <=> InstructionReads(name, id)
        /\ RecordedAsWriter(name, id) <=> InstructionWrites(name, id)

\* eliminateRedundantBitOp has turned a right shift of a left shift into an
\* AND with the mask, after an edit through the walker
C1_Witness ==
    /\ Len(passLog) = 2
    /\ passLog[1].pass = "edit"
    /\ passLog[2].pass = "eliminateRedundantBitOp" /\ passLog[2].changed
    /\ \E i \in DOMAIN instructions :
          /\ previousInstructions[i].op = "shr"
          /\ instructions[i].op = "and"
          /\ instructions[i].args[2] = Lit(ShiftMask(3))
          /\ RecordedAsReader("x", instructions[i].id)

\* ---- the meaning of a block: what it reads and what it writes to registers ----
InterpretedLocals == {"a", "b", "c", "d", "x", "y"} \cup BuiltinLocals

InputWords == {3, 200}

InitialExecution(x, r5) ==
    [vals |-> [l \in InterpretedLocals |-> IF l \in Parameters THEN x ELSE 0],
     r5 |-> r5, unifReads |-> 0, flagZ |-> FALSE, trace |-> <<>>, reads |-> <<>>]

ArgumentValue(st, v) ==
    CASE IsLiteral(v) -> v.lit
      [] IsLocal(v) -> st.vals[v.n]
      [] v = Reg("r5") -> st.r5
      [] v = Reg("unif") -> (40 + st.unifReads) % WordModulus
      [] OTHER -> 0

Execute(st, instr) ==
    IF ~IsAluOrLoad(instr) \/ (instr.cond /\ ~st.flagZ) THEN st
    ELSE LET a0 == ArgumentValue(st, instr.args[1])
             a1 == IF Len(instr.args) > 1 THEN ArgumentValue(st, instr.args[2]) ELSE 0
             res == IF instr.kind = "op" THEN EvalOpCode(instr.op, a0, a1) ELSE a0
         IN  [vals |-> IF IsLocal(instr.out)
                       THEN [st.vals EXCEPT ![instr.out.n] = res] ELSE st.vals,
              r5 |-> IF instr.out = Reg("r5") THEN res ELSE st.r5,
              unifReads |-> IF ReadsRegister(instr, "unif")
                            THEN st.unifReads + 1 ELSE st.unifReads,
              flagZ |-> IF instr.setf THEN res = 0 ELSE st.flagZ,
              trace |-> IF IsRegister(instr.out)
                        THEN Append(st.trace, <<instr.out.n, res>>) ELSE st.trace,
              reads |-> Append(st.reads,
                               [id |-> instr.id, kind |-> instr.kind,
                                vals |-> IF Len(instr.args) > 1 THEN <<a0, a1>> ELSE <<a0>>])]

RECURSIVE RunFrom(_, _, _)
RunFrom(ins, i, st) ==
    IF i > Len(ins) THEN st ELSE RunFrom(ins, i + 1, Execute(st, ins[i]))

\* two blocks write the same values to the registers, and every
\* instruction of the second that is an instruction of the first (not
\* turned into another kind) reads the values it read in the first
SameObservations(before, after) ==
    \A x \in InputWords, r5 \in InputWords :
        LET o == RunFrom(before, 1, InitialExecution(x, r5))
            n == RunFrom(after, 1, InitialExecution(x, r5))
        IN  /\ o.trace = n.trace
            /\ \A i \in DOMAIN o.reads, j \in DOMAIN n.reads :
                  (/\ o.reads[i].id = n.reads[j].id
                   /\ o.reads[i].kind = n.reads[j].kind
                   /\ Len(o.reads[i].vals) = Len(n.reads[j].vals))
                      => o.reads[i].vals = n.reads[j].vals

\* C2: after propagateMoves and then eliminateRedundantMoves the block
\* computes what the front-end's block computed: the same values are read
\* by every remaining instruction and written to every register.
C2_MovePassesPreserveValues ==
    (/\ Len(passLog) = 2
     /\ passLog[1].pass = "propagateMoves"
     /\ passLog[2].pass = "eliminateRedundantMoves")
        => SameObservations(frontEndInstructions, instructions)

\* C3: a second run of eliminateDeadCode directly after a first returns
\* false and leaves the instructions as the first run left them.
C3_DeadCodeIdempotent ==
    (/\ Len(passLog) = 2
     /\ passLog[1].pass = "eliminateDeadCode"
     /\ passLog[2].pass = "eliminateDeadCode")
        => (~passLog[2].changed /\ instructions = previousInstructions)

\* the Local is not a Parameter, nothing reads it and the instructions
\* writing it have no side effects
IsDeadLocal(name) ==
    /\ name \notin Parameters
    /\ ~\E i \in DOMAIN instructions : ReadsLocal(instructions[i], name)
    /\ \A i \in DOMAIN instructions :
          WritesLocal(instructions[i], name) => ~HasSideEffects(instructions[i])

\* the kernel that writes a constant to a Local read once by a final store
ConstantStoreKernel ==
    <<[Label EXCEPT !.id = 1],
      [Move(Loc("a"), Lit(5)) EXCEPT !.id = 2],
      [Move(Reg("vpm"), Loc("a")) EXCEPT !.id = 3]>>

\* C4: after eliminateDeadCode a dead Local has no writer left and is no
\* longer among the locals of the Method; in the kernel storing a constant
\* through a Local, after propagateMoves and eliminateDeadCode the store
\* reads the constant and the Local is gone.
C4_DeadLocalDisappears ==
    /\ (passLog # <<>> /\ passLog[Len(passLog)].pass = "eliminateDeadCode") =>
          \A name \in KnownLocalNames :
              IsDeadLocal(name) =>
                  /\ ~\E i \in DOMAIN instructions : WritesLocal(instructions[i], name)
                  /\ name \notin locals
    /\ (/\ frontEndInstructions = ConstantStoreKernel
        /\ Len(passLog) = 2
        /\ passLog[1].pass = "propagateMoves"
        /\ passLog[2].pass = "eliminateDeadCode") =>
          /\ instructions = <<[Label EXCEPT !.id = 1],
                              [Move(Reg("vpm"), Lit(5)) EXCEPT !.id = 3]>>
          /\ "a" \notin locals

\* the last pass run was eliminateDeadCode, on previousInstructions
DeadCodeJustRun ==
    passLog # <<>> /\ passLog[Len(passLog)].pass = "eliminateDeadCode"

\* the simple Local-to-Local moves of ins whose output has no writer but the
\* move and is still read (all Locals of the model have one type)
MergeableMoves(ins) ==
    {i \in DOMAIN ins :
        /\ ins[i].kind = "move" /\ IsLocal(ins[i].out) /\ IsLocal(ins[i].args[1])
        /\ ~ins[i].cond /\ ~ins[i].setf /\ ~ins[i].unpack
        /\ \A j \in DOMAIN ins : j # i => ~WritesLocal(ins[j], ins[i].out.n)
        /\ \E j \in DOMAIN ins : ReadsLocal(ins[j], ins[i].out.n)}

\* C16: eliminateDeadCode removes every simple Local-to-Local move whose
\* output has no other writer and still has readers: afterwards the move is
\* erased and nothing reads its output Local any more (the readers read the
\* source Local instead).
C16_LocalMovesAreMerged ==
    DeadCodeJustRun =>
        \A i \in MergeableMoves(previousInstructions) :
            /\ \A j \in DOMAIN instructions :
                  instructions[j].id # previousInstructions[i].id
            /\ \A j \in DOMAIN instructions :
                  ~ReadsLocal(instructions[j], previousInstructions[i].out.n)

\* the moves of ins from the UNIFORM register into a builtin Local that no
\* instruction of ins reads
UnreadUniformMoves(ins) ==
    {i \in DOMAIN ins :
        /\ ins[i].kind = "move" /\ ins[i].args[1] = Reg("unif")
        /\ IsLocal(ins[i].out) /\ ins[i].out.n \in BuiltinLocals
        /\ ~\E j \in DOMAIN ins : ReadsLocal(ins[j], ins[i].out.n)}

\* the usage flags set by the instructions ins
FlagsSetBy(ins) == UNION {UniformsOf(ins[i]) : i \in DOMAIN ins}

\* C17: for every kind of builtin Local with a usage flag, eliminateDeadCode
\* deletes the move from the UNIFORM register into the builtin Local when
\* nothing reads the Local, and clears the usage flag of exactly that kind:
\* all other flags are as before.
C17_UnreadBuiltinsAreDisabled ==
    (DeadCodeJustRun /\ Len(passLog) = 1) =>
        LET unread == UnreadUniformMoves(previousInstructions) IN
        /\ \A i \in unread : \A j \in DOMAIN instructions :
              instructions[j].id # previousInstructions[i].id
        /\ uniformsUsed = FlagsSetBy(previousInstructions)
                            \ {previousInstructions[i].out.n : i \in unread}

ReadsReplication(instr) ==
    \E k \in DOMAIN instr.args :
        IsRegister(instr.args[k]) /\ IsReplicationRegister(instr.args[k].n)

WritesReplication(instr) ==
    IsRegister(instr.out) /\ IsReplicationRegister(instr.out.n)

\* the instruction of previousInstructions is no longer in the Method
ErasedByLastPass(i) ==
    \A j \in DOMAIN instructions : instructions[j].id # previousInstructions[i].id

\* the value written to the register by ins[i] is read by a later
\* instruction of the block that the pass kept: no unconditional write of the
\* register lies between the two
RegisterValueIsRead(ins, i) ==
    \E j \in (i + 1)..Len(ins) :
        /\ ReadsReplication(ins[j])
        /\ \E k \in DOMAIN instructions : instructions[k].id = ins[j].id
        /\ \A k \in (i + 1)..(j - 1) : ~(WritesReplication(ins[k]) /\ ~ins[k].cond)

\* C18: eliminateDeadCode deletes a side-effect-free write of r5 or a
\* replication register only if the register is overwritten later in the
\* block before it is read: a write whose value a later instruction reads
\* (also one that reads and writes the register, also behind a conditional
\* overwrite) is kept, and so is a write that no write follows.
C18_ReadRegisterWritesAreKept ==
    DeadCodeJustRun =>
        \A i \in DOMAIN previousInstructions :
            (/\ IsAluOrLoad(previousInstructions[i])
             /\ WritesReplication(previousInstructions[i])
             /\ ~HasSideEffects(previousInstructions[i])
             /\ ErasedByLastPass(i))
                => /\ ~RegisterValueIsRead(previousInstructions, i)
                   /\ \E j \in (i + 1)..Len(previousInstructions) :
                         WritesReplication(previousInstructions[j])

\* the side-effect-free writes of a Local in previousInstructions
LocalWrites ==
    {i \in DOMAIN previousInstructions :
        /\ IsAluOrLoad(previousInstructions[i]) /\ IsLocal(previousInstructions[i].out)
        /\ ~HasSideEffects(previousInstructions[i])}

\* the first instruction behind ins[i] that reads the Local ins[i] writes or
\* overwrites it unconditionally, 0 if the block has none
FirstAccess(ins, i) ==
    FirstOf({j \in (i + 1)..Len(ins) :
                \/ ReadsLocal(ins[j], ins[i].out.n)
                \/ WritesLocal(ins[j], ins[i].out.n) /\ ~ins[j].cond})

OverwrittenBeforeRead(ins, i) ==
    FirstAccess(ins, i) # 0 /\ ~ReadsLocal(ins[FirstAccess(ins, i)], ins[i].out.n)

\* a read comes first, in an instruction the pass kept
ReadComesFirst(ins, i) ==
    /\ FirstAccess(ins, i) # 0
    /\ ReadsLocal(ins[FirstAccess(ins, i)], ins[i].out.n)
    /\ \E k \in DOMAIN instructions : instructions[k].id = ins[FirstAccess(ins, i)].id

NeverReadBeforeEndOfBlock(ins, i) ==
    \A j \in (i + 1)..Len(ins) : ~ReadsLocal(ins[j], ins[i].out.n)

\* C19: eliminateDeadCode deletes a side-effect-free write of a Local when
\* the Local is unconditionally overwritten before any read of it, or is not
\* read before the end of the block; it keeps the write when a read of the
\* Local comes first.
C19_OverwrittenOrUnreadWritesAreDeleted ==
    DeadCodeJustRun =>
        \A i \in LocalWrites :
            /\ (\/ OverwrittenBeforeRead(previousInstructions, i)
                \/ NeverReadBeforeEndOfBlock(previousInstructions, i)) => ErasedByLastPass(i)
            /\ ReadComesFirst(previousInstructions, i) => ~ErasedByLastPass(i)

\* the pass kept every instruction behind ins[i]: its scan from ins[i] saw
\* the rest of the block as it is in ins
RestOfBlockKept(ins, i) ==
    \A j \in (i + 1)..Len(ins) : \E k \in DOMAIN instructions : instructions[k].id = ins[j].id

\* C19, as the code has it: the write is deleted when the Local is
\* unconditionally overwritten before any read of it; it is kept when a read
\* comes first, and also when neither a read nor an unconditional overwrite
\* follows before the end of the block, unless no instruction reading the
\* Local is left in the Method (the rest of the block taken as the scan
\* sees it).
C19_OverwrittenWritesAreDeleted ==
    DeadCodeJustRun =>
        \A i \in LocalWrites :
            /\ OverwrittenBeforeRead(previousInstructions, i) => ErasedByLastPass(i)
            /\ ReadComesFirst(previousInstructions, i) => ~ErasedByLastPass(i)
            /\ (/\ ErasedByLastPass(i) /\ RestOfBlockKept(previousInstructions, i)
                /\ ~OverwrittenBeforeRead(previousInstructions, i))
                  => \A k \in DOMAIN instructions :
                        ~ReadsLocal(instructions[k], previousInstructions[i].out.n)

\* a write of a Local that an earlier instruction reads and nothing behind
\* it reads or overwrites was kept by the pass
C19_Witness ==
    /\ DeadCodeJustRun
    /\ \E i \in LocalWrites :
          /\ FirstAccess(previousInstructions, i) = 0
          /\ \E j \in 1..(i - 1) :
                ReadsLocal(previousInstructions[j], previousInstructions[i].out.n)
          /\ ~ErasedByLastPass(i)

\* ---- simplifyOperation ----
\* the last step was a call of simplifyOperation with the walker on a simple
\* operation of previousInstructions
SimplifyCalled ==
    /\ passLog # <<>> /\ passLog[Len(passLog)].pass = "simplifyOperation"
    /\ previousInstructions[passLog[Len(passLog)].it].kind = "op"
    /\ ~HasSideEffects(previousInstructions[passLog[Len(passLog)].it])
    /\ ~previousInstructions[passLog[Len(passLog)].it].unpack

SimplifiedAt == passLog[Len(passLog)].it

OldOperation == previousInstructions[SimplifiedAt]

\* a write that leaves the QPU (the accumulator r5 is seen by its value)
IsOutputWrite(e) == HasSideEffectsOnWrite(e[1])

\* the block computes the same: for all inputs the same values end up in
\* the Locals, in r5 and in the flags, and the same values are written to
\* the periphery
SameResults(before, after) ==
    \A x \in InputWords, r5 \in InputWords :
        LET o == RunFrom(before, 1, InitialExecution(x, r5))
            n == RunFrom(after, 1, InitialExecution(x, r5))
        IN  /\ o.vals = n.vals /\ o.r5 = n.r5 /\ o.flagZ = n.flagZ
            /\ SelectSeq(o.trace, IsOutputWrite) = SelectSeq(n.trace, IsOutputWrite)

SampleWords == {0, 1, 3, WordModulus \div 2, 200, AllOnes}

\* the value of argument k whenever the operation executes is the word w
OperandIsAlways(k, w) ==
    \A x \in InputWords, r5 \in InputWords :
        ArgumentValue(RunFrom(SubSeq(previousInstructions, 1, SimplifiedAt - 1), 1,
                              InitialExecution(x, r5)),
                      OldOperation.args[k]) = w

OperandsAlwaysEqual ==
    \A x \in InputWords, r5 \in InputWords :
        LET st == RunFrom(SubSeq(previousInstructions, 1, SimplifiedAt - 1), 1,
                          InitialExecution(x, r5))
        IN  ArgumentValue(st, OldOperation.args[1]) = ArgumentValue(st, OldOperation.args[2])

\* the constant the code can know an operand to be: a literal, or a Local
\* whose only writer moves a literal; NO_VALUE otherwise
KnownConstant(v) ==
    LET writers == {i \in DOMAIN previousInstructions : previousInstructions[i].out = v}
    IN  IF IsLiteral(v) THEN v
        ELSE IF IsLocal(v) /\ Cardinality(writers) = 1
                /\ \A i \in writers : /\ previousInstructions[i].kind = "move"
                                      /\ IsLiteral(previousInstructions[i].args[1])
        THEN previousInstructions[CHOOSE i \in writers : TRUE].args[1]
        ELSE NO_VALUE

\* the instruction that took the place of the operation, if the call put one
ReplacedBy(kind) ==
    /\ Len(instructions) = Len(previousInstructions)
    /\ instructions[SimplifiedAt].kind = kind
    /\ instructions[SimplifiedAt].id = OldOperation.id
    /\ instructions[SimplifiedAt].out = OldOperation.out
    /\ instructions[SimplifiedAt].cond = OldOperation.cond
    /\ instructions[SimplifiedAt].setf = OldOperation.setf
    /\ \A i \in DOMAIN instructions :
          i # SimplifiedAt => instructions[i] = previousInstructions[i]

NewSource == instructions[SimplifiedAt].args[1]

AbsorbingApplied ==
    /\ ReplacedBy("move") /\ IsLiteral(NewSource)
    /\ \/ /\ OperandIsAlways(1, NewSource.lit)
          /\ \A w \in SampleWords : EvalOpCode(OldOperation.op, NewSource.lit, w) = NewSource.lit
       \/ /\ Len(OldOperation.args) > 1 /\ OperandIsAlways(2, NewSource.lit)
          /\ \A w \in SampleWords : EvalOpCode(OldOperation.op, w, NewSource.lit) = NewSource.lit

SelfInverseApplied ==
    /\ ReplacedBy("move") /\ NewSource = Lit(0)
    /\ Len(OldOperation.args) > 1 /\ OperandsAlwaysEqual
    /\ \A w \in SampleWords : EvalOpCode(OldOperation.op, w, w) = 0
    /\ \A k \in DOMAIN OldOperation.args :
          ~(IsLocal(OldOperation.args[k]) /\ OldOperation.args[k].n \in BoolLocals)

OtherOperandApplied ==
    /\ ReplacedBy("move") /\ Len(OldOperation.args) > 1
    /\ \/ /\ NewSource = OldOperation.args[1]
          /\ \E e \in SampleWords :
                /\ OperandIsAlways(2, e)
                /\ \A w \in SampleWords : EvalOpCode(OldOperation.op, w, e) = w
       \/ /\ NewSource = OldOperation.args[2]
          /\ \E e \in SampleWords :
                /\ OperandIsAlways(1, e)
                /\ \A w \in SampleWords : EvalOpCode(OldOperation.op, e, w) = w
       \/ /\ NewSource = OldOperation.args[2] /\ OperandsAlwaysEqual
          /\ \A w \in SampleWords : EvalOpCode(OldOperation.op, w, w) = w

NotApplied ==
    /\ ReplacedBy("op") /\ instructions[SimplifiedAt].op = "not"
    /\ OldOperation.op = "xor"
    /\ \/ OldOperation.args = <<Lit(AllOnes), NewSource>>
       \/ OldOperation.args = <<NewSource, Lit(AllOnes)>>

ErasedOwnInput ==
    /\ instructions = RemoveAt(previousInstructions, SimplifiedAt)
    /\ \E k \in DOMAIN OldOperation.args : OldOperation.args[k] = OldOperation.out

\* the operands as the code knows them
KnownFirst ==
    IF KnownConstant(OldOperation.args[1]) # NO_VALUE
    THEN KnownConstant(OldOperation.args[1]) ELSE OldOperation.args[1]

KnownSecond ==
    IF Len(OldOperation.args) = 1 THEN NO_VALUE
    ELSE IF KnownConstant(OldOperation.args[2]) # NO_VALUE
    THEN KnownConstant(OldOperation.args[2]) ELSE OldOperation.args[2]

AbsorbingApplies ==
    \/ HasLiteral(KnownFirst, GetLeftAbsorbingElement(OldOperation.op))
    \/ HasLiteral(KnownSecond, GetRightAbsorbingElement(OldOperation.op))

SelfInverseApplies ==
    IsSelfInverse(OldOperation.op) /\ KnownFirst = KnownSecond /\ ~IsBoolean(KnownFirst)

WritesOwnInput ==
    \E k \in DOMAIN OldOperation.args : OldOperation.args[k] = OldOperation.out

OtherOperandApplies ==
    /\ Len(OldOperation.args) > 1
    /\ \/ HasLiteral(KnownSecond, GetRightIdentity(OldOperation.op))
       \/ HasLiteral(KnownFirst, GetLeftIdentity(OldOperation.op))
       \/ IsIdempotent(OldOperation.op) /\ KnownFirst = KnownSecond /\ ~IsRegister(KnownFirst)

\* C20: a call of simplifyOperation on a simple operation with one or two
\* operands leaves the values the block computes as they were, for all
\* operand values.  It applies at most one rule: the operation becomes a move
\* of the absorbing constant only when an operand is the absorbing element,
\* a move of zero only for a self-inverse operation with equal non-boolean
\* operands, a move of the other operand only when one operand is the
\* identity element or the operation is idempotent with equal operands, NOT
\* only for XOR with all-ones, and it is erased only when it writes one of
\* its own inputs.  The rules are tried in this order: an operation that
\* the absorbing rule fits becomes the absorbing move, else one that the
\* self-inverse rule fits becomes a move of zero, else one writing no input
\* of its own that the other-operand rule fits becomes that move.
C20_SimplifyPreservesValues ==
    SimplifyCalled =>
        /\ SameResults(previousInstructions, instructions)
        /\ \/ instructions = previousInstructions
           \/ AbsorbingApplied
           \/ SelfInverseApplied
           \/ OtherOperandApplied
           \/ NotApplied
           \/ ErasedOwnInput
        /\ AbsorbingApplies => AbsorbingApplied
        /\ (~AbsorbingApplies /\ SelfInverseApplies) => SelfInverseApplied
        /\ (~AbsorbingApplies /\ ~SelfInverseApplies /\ ~WritesOwnInput /\ OtherOperandApplies)
              => OtherOperandApplied

\* an operation reading a Local that its single writer makes the identity
\* element was replaced by a move of its other operand
C20_Witness ==
    /\ SimplifyCalled /\ OtherOperandApplied
    /\ ~AbsorbingApplies /\ ~SelfInverseApplies
    /\ \E k \in DOMAIN OldOperation.args :
          IsLocal(OldOperation.args[k]) /\ KnownConstant(OldOperation.args[k]) # NO_VALUE

\* the last step was a call of simplifyOperation with the walker on a move of
\* a value to itself that has no other effects
SelfMoveSimplified ==
    /\ passLog # <<>> /\ passLog[Len(passLog)].pass = "simplifyOperation"
    /\ previousInstructions[passLog[Len(passLog)].it].kind = "move"
    /\ previousInstructions[passLog[Len(passLog)].it].args[1]
          = previousInstructions[passLog[Len(passLog)].it].out
    /\ IsSimpleMove(previousInstructions[passLog[Len(passLog)].it])

\* C29: simplifyOperation never accesses an instruction after erasing it:
\* when it erases a self-move it reads nothing of that move afterwards, the
\* block is left as it was but for the erased move, and the walker it
\* returns stands on the instruction in front of the erased one
C29_NoAccessAfterErase ==
    SelfMoveSimplified =>
        /\ ~passLog[Len(passLog)].readDestroyed
        /\ ~passLog[Len(passLog)].crashed
        /\ instructions = RemoveAt(previousInstructions, SimplifiedAt)
        /\ passLog[Len(passLog)].returned = SimplifiedAt - 1

----------------------------------------------------------------------------
(***************************************************************************)
(* Claims about the cached CFG and about isLocallyLimited                  *)
(***************************************************************************)
\* the edges derived afresh from a block list: one per explicit branch
\* target, one fall-through edge from each block that can fall through to
\* the block following it
ExplicitEdges(bbs) ==
    {Edge(GetLabel(bbs[k]), bbs[k][i].target, FALSE) :
        <<k, i>> \in {p \in UNION {{<<b, j>> : j \in DOMAIN bbs[b]} : b \in DOMAIN bbs} :
                        /\ bbs[p[1]][p[2]].kind = "branch"
                        /\ \E b \in DOMAIN bbs : GetLabel(bbs[b]) = bbs[p[1]][p[2]].target}}

FallThroughEdges(bbs) ==
    {Edge(GetLabel(bbs[k]), GetLabel(bbs[k + 1]), TRUE) :
        k \in {b \in DOMAIN bbs : b < Len(bbs) /\ FallsThroughToNextBlock(bbs[b])}}

\* C6: once a CFG has been requested, after any sequence of appendToEnd,
\* createAndInsertNewBlock, emplaceLabel, removeBlock, moveBlock and walker
\* edits inserting or removing branches, the cached CFG has exactly the
\* edges derived afresh from the current block list.
C6_CachedCFGIsFresh ==
    cfg.cached =>
        cfg.edges = ExplicitEdges(basicBlocks) \cup FallThroughEdges(basicBlocks)

\* ---- removeBlock ----
\* some branch of the blocks names the label as a target
IsBranchedTo(bbs, label) ==
    \E k \in DOMAIN bbs : \E i \in DOMAIN bbs[k] :
        bbs[k][i].kind = "branch" /\ bbs[k][i].target = label

\* removeBlock has to refuse: the block is in the Method, the usages are not
\* to be overwritten and the block is non-empty or branched to
MustRefuse(call) ==
    /\ call.block \in DOMAIN call.before.bbs
    /\ ~call.overwriteUsages
    /\ \/ Len(call.before.bbs[call.block]) > 1
       \/ IsBranchedTo(call.before.bbs, call.before.bbs[call.block][1].label)

\* C13: removeBlock without overwriteUsages returns false and leaves block
\* list and CFG unchanged when the block is non-empty or a branch names its
\* label; otherwise a block of the Method is removed from the block list, the
\* cached CFG is updated for the removal and true is returned; a block that
\* is not in the Method is never removed and false is returned.
C13_RemoveBlockContract ==
    lastRemoval.called =>
        IF lastRemoval.block \notin DOMAIN lastRemoval.before.bbs \/ MustRefuse(lastRemoval)
        THEN /\ ~lastRemoval.result
             /\ basicBlocks = lastRemoval.before.bbs
             /\ cfg = lastRemoval.before.cfg
        ELSE /\ lastRemoval.result
             /\ Len(basicBlocks) = Len(lastRemoval.before.bbs) - 1
             /\ \A k \in DOMAIN basicBlocks :
                   basicBlocks[k] = lastRemoval.before.bbs[IF k < lastRemoval.block
                                                           THEN k ELSE k + 1]
             /\ cfg.cached = lastRemoval.before.cfg.cached
             /\ cfg.cached =>
                   cfg.edges = ExplicitEdges(basicBlocks) \cup FallThroughEdges(basicBlocks)

\* a non-empty block that is branched to has been removed with
\* overwriteUsages while a CFG was cached and held edges of it
C13_Witness ==
    /\ lastRemoval.called /\ lastRemoval.result /\ lastRemoval.overwriteUsages
    /\ lastRemoval.before.cfg.cached
    /\ Len(lastRemoval.before.bbs[lastRemoval.block]) > 1
    /\ IsBranchedTo(lastRemoval.before.bbs,
                    lastRemoval.before.bbs[lastRemoval.block][1].label)
    /\ cfg.edges # lastRemoval.before.cfg.edges

\* the removeBlock call made last was for a block of the Method that an
\* explicit branch still names
RemovalOfReferencedBlock ==
    /\ lastRemoval.called
    /\ lastRemoval.block \in DOMAIN lastRemoval.before.bbs
    /\ IsBranchedTo(lastRemoval.before.bbs,
                    lastRemoval.before.bbs[lastRemoval.block][1].label)

\* C15: a removeBlock request for a block that an explicit branch still
\* names ends in a fatal compilation error that aborts the compilation of the
\* unit; it is not recovered locally.
C15_ReferencedRemovalIsFatal ==
    RemovalOfReferencedBlock => lastRemoval.thrown

\* C15, as the code has it: a removeBlock request for a block that an
\* explicit branch still names raises no error; without overwriteUsages it
\* is refused locally (false is returned and the block list is unchanged),
\* with overwriteUsages the block is removed and true is returned.
C15_ReferencedRemovalIsRefusedLocally ==
    RemovalOfReferencedBlock =>
        /\ ~lastRemoval.thrown
        /\ IF lastRemoval.overwriteUsages
           THEN lastRemoval.result /\ Len(basicBlocks) = Len(lastRemoval.before.bbs) - 1
           ELSE ~lastRemoval.result /\ basicBlocks = lastRemoval.before.bbs

\* removeBlock without overwriteUsages was called for an empty block that a
\* branch names, and returned false
C15_Witness ==
    /\ RemovalOfReferencedBlock
    /\ ~lastRemoval.overwriteUsages
    /\ Len(lastRemoval.before.bbs[lastRemoval.block]) = 1
    /\ ~lastRemoval.result /\ ~lastRemoval.thrown

\* ---- isLocallyLimited ----
\* the instructions following an instruction: the next in instruction
\* order and, for a branch, the label of its target block
Successors(bbs, it) ==
    (IF IsEndOfMethod(bbs, NextInMethod(bbs, it)) THEN {} ELSE {NextInMethod(bbs, it)})
    \cup (IF bbs[it[1]][it[2]].kind = "branch"
             /\ FindBasicBlock(bbs, bbs[it[1]][it[2]].target) # 0
          THEN {<<FindBasicBlock(bbs, bbs[it[1]][it[2]].target), 1>>}
          ELSE {})

\* the instructions a brute-force scan from the given instructions
\* encounters when it examines them and up to n instructions after them on
\* every path
RECURSIVE Encountered(_, _, _)
Encountered(bbs, from, n) ==
    IF n = 0 THEN from
    ELSE Encountered(bbs, from \cup UNION {Successors(bbs, it) : it \in from}, n - 1)

\* the instructions a brute-force scan from it examining at most n
\* instructions on a path encounters
BruteForceScan(bbs, it, n) == IF n = 0 THEN {} ELSE Encountered(bbs, {it}, n - 1)

\* the blocks first..last form a loop: the last one branches back to the first
IsLoop(bbs, first, last) ==
    /\ first <= last
    /\ \E i \in DOMAIN bbs[last] :
          bbs[last][i].kind = "branch" /\ bbs[last][i].target = GetLabel(bbs[first])

LoopSize(bbs, first, last) == NumInstructions(SubSeq(bbs, first, last))

\* the Local is used, and only inside the loop
UsedOnlyInLoop(bbs, first, last) ==
    /\ GetUsers(bbs) # {}
    /\ \A u \in GetUsers(bbs) : first <= u[1] /\ u[1] <= last

Loops(bbs) ==
    {l \in (DOMAIN bbs) \X (DOMAIN bbs) :
        IsLoop(bbs, l[1], l[2]) /\ UsedOnlyInLoop(bbs, l[1], l[2])}

\* C7: isLocallyLimited(position, local, threshold) returns true if and
\* only if a brute-force scan that starts at position, follows the
\* instruction order and every branch target and examines at most threshold
\* instructions encounters every instruction using the Local; it returns
\* false for a Local used only inside a loop when asked from a position
\* before the loop with a threshold smaller than the loop body.
C7_LocallyLimitedIffBruteForce ==
    lastQuery.asked =>
        /\ lastQuery.result <=>
              GetUsers(basicBlocks)
                 \subseteq BruteForceScan(basicBlocks, lastQuery.it, lastQuery.threshold)
        /\ \A l \in Loops(basicBlocks) :
              (/\ lastQuery.it[1] < l[1]
               /\ lastQuery.threshold < LoopSize(basicBlocks, l[1], l[2]))
                 => ~lastQuery.result

\* the instruction in front of the position in its block, which
\* isLocallyLimited takes as examined
PreviousInBlock(it) == IF IsStartOfBlock(it) THEN {} ELSE {<<it[1], it[2] - 1>>}

\* the instructions within threshold instructions after the position, the
\* one in front of it included
WithinRange(bbs, it, threshold) ==
    PreviousInBlock(it) \cup Encountered(bbs, {it}, threshold)

\* the scan from the position meets no branch within the threshold
MeetsNoBranch(bbs, it, threshold) ==
    \A e \in Encountered(bbs, {it}, threshold) : bbs[e[1]][e[2]].kind # "branch"

\* C7 (amended): isLocallyLimited returns true only if every instruction
\* using the Local is the one in front of the position in its block or is
\* encountered by a scan from the position that follows the instruction
\* order and every branch target and examines the instruction at the
\* position and at most threshold instructions after it on a path; where
\* that scan meets no branch the converse holds too; it returns false for a
\* Local used only inside a loop when asked from a position before the loop
\* with a threshold smaller than the distance to one of the uses.
C7_Amended ==
    lastQuery.asked =>
        /\ lastQuery.result =>
              GetUsers(basicBlocks)
                 \subseteq WithinRange(basicBlocks, lastQuery.it, lastQuery.threshold)
        /\ MeetsNoBranch(basicBlocks, lastQuery.it, lastQuery.threshold) =>
              (lastQuery.result <=>
                  GetUsers(basicBlocks)
                     \subseteq WithinRange(basicBlocks, lastQuery.it, lastQuery.threshold))
        /\ \A l \in Loops(basicBlocks) :
              (/\ lastQuery.it[1] < l[1]
               /\ \E u \in GetUsers(basicBlocks) :
                     u \notin Encountered(basicBlocks, {lastQuery.it}, lastQuery.threshold))
                 => ~lastQuery.result

\* isLocallyLimited has been asked from in front of a loop holding all
\* the uses, once with a use out of range and the answer false
C7_Witness ==
    /\ lastQuery.asked
    /\ ~lastQuery.result
    /\ \E l \in Loops(basicBlocks) :
          /\ lastQuery.it[1] < l[1]
          /\ lastQuery.threshold < LoopSize(basicBlocks, l[1], l[2])

----------------------------------------------------------------------------
(***************************************************************************)
(* Claims about createLocalName                                            *)
(***************************************************************************)
GeneratedNames == {i \in DOMAIN returnedNames : returnedNames[i].generated}

NoTwoCallsReturnTheSameName ==
    \A i \in GeneratedNames : \A j \in GeneratedNames :
        i # j => /\ returnedNames[i].name # returnedNames[j].name
                 /\ returnedNames[i].index # returnedNames[j].index

\* C14: in every interleaving of concurrent createLocalName calls that
\* generate the name from the counter, no two calls return the same name:
\* each call gets a value of the one process-wide counter of its own, and the
\* counter only increases.
C14_GeneratedNamesDistinct ==
    [][tmpIndex' >= tmpIndex /\ NoTwoCallsReturnTheSameName']_vars

\* two threads were inside createLocalName at once and returned generated
\* names in the order opposite to their counter values
C14_Witness ==
    \E i \in GeneratedNames : \E j \in GeneratedNames :
        /\ i < j
        /\ returnedNames[i].thread # returnedNames[j].thread
        /\ returnedNames[i].index > returnedNames[j].index

----------------------------------------------------------------------------
(***************************************************************************)
(* Claims on eliminateReturn                                               *)
(***************************************************************************)
\* eliminateReturn has been called for every instruction of the Method
ReturnsEliminated == returnIt # NotStarted /\ IsEndOfMethod(basicBlocks, returnIt)

PositionsOf(bbs) ==
    UNION {{<<b, i>> : i \in DOMAIN bbs[b]} : b \in DOMAIN bbs}

FormerReturns == {it \in PositionsOf(returnBefore) : returnBefore[it[1]][it[2]].kind = "return"}

TerminalBlocks(bbs) == {k \in DOMAIN bbs : GetLabel(bbs[k]) = LAST_BLOCK}

\* C22: after eliminateReturn has been applied to every instruction of a
\* Method no Return is left, each former Return is an unconditional branch
\* to the terminal block, every other instruction is what it was, and a
\* Method that had Returns has exactly one block with the terminal label:
\* the block list is the old one, with the terminal block appended at its
\* end if and only if no block had that label.
C22_ReturnsBecomeBranchesToOneTerminalBlock ==
    ReturnsEliminated =>
        /\ \A it \in PositionsOf(basicBlocks) : basicBlocks[it[1]][it[2]].kind # "return"
        /\ \A it \in PositionsOf(returnBefore) :
              basicBlocks[it[1]][it[2]] =
                  IF it \in FormerReturns THEN Branch(LAST_BLOCK, TRUE, FALSE)
                  ELSE returnBefore[it[1]][it[2]]
        /\ FormerReturns # {} => Cardinality(TerminalBlocks(basicBlocks)) = 1
        /\ IF FormerReturns # {} /\ TerminalBlocks(returnBefore) = {}
           THEN /\ Len(basicBlocks) = Len(returnBefore) + 1
                /\ basicBlocks[Len(basicBlocks)] = <<BranchLabel(LAST_BLOCK)>>
           ELSE Len(basicBlocks) = Len(returnBefore)

\* two Returns of a Method without terminal block have been replaced, and
\* the walk has gone through the block created for them
C22_Witness ==
    /\ ReturnsEliminated
    /\ Cardinality(FormerReturns) >= 2
    /\ TerminalBlocks(returnBefore) = {}
    /\ returnIt[1] = Len(returnBefore) + 1

----------------------------------------------------------------------------
(***************************************************************************)
(* Claims on the propagation of moves from registers                       *)
(***************************************************************************)
PropagateJustRun ==
    passLog # <<>> /\ passLog[Len(passLog)].pass = "propagateMoves"

\* the argument p of the instruction at j was a Local before the pass and is
\* a register after it
IsRegisterSubstitution(j, p) ==
    /\ j \in DOMAIN previousInstructions /\ p \in DOMAIN previousInstructions[j].args
    /\ IsLocal(previousInstructions[j].args[p])
    /\ IsRegister(instructions[j].args[p])

RegisterSubstitutions ==
    {jp \in (DOMAIN instructions) \X (1..2) : IsRegisterSubstitution(jp[1], jp[2])}

\* the moves in front of j the register at argument p of j can have come from
MovesSubstitutedInto(j, p) ==
    {i \in 2..(j - 1) :
        /\ instructions[i].kind = "move"
        /\ instructions[i].out = previousInstructions[j].args[p]
        /\ instructions[i].args[1] = instructions[j].args[p]}

\* the instruction interferes with the register, as the claim lists it
Interferes(reg, instr) ==
    IF reg = "r4" THEN IsRegister(instr.out) /\ TriggersReadOfR4(instr.out.n)
    ELSE IF reg = "r5" THEN IsRegister(instr.out) /\ instr.out.n \in {"r5", "rep_quad", "rep_all"}
    ELSE TRUE

NoInterferenceBetween(i, j, reg) ==
    \A k \in (i + 1)..(j - 1) : ~Interferes(reg, instructions[k])

----------------------------------------------------------------------------
(***************************************************************************)
(* Claims on the monotone laws of eliminateRedundantBitOp                  *)
(***************************************************************************)
BitOpJustRun ==
    /\ Len(passLog) = 1 /\ passLog[1].pass = "eliminateRedundantBitOp"

\* the AND/OR at j has been replaced by a move of a Local
IsMonotoneReplacement(j) ==
    /\ previousInstructions[j].kind = "op" /\ previousInstructions[j].op \in {"and", "or"}
    /\ instructions[j].kind = "move" /\ IsLocal(instructions[j].args[1])

\* the state after the first j instructions, the Parameters x and y given
StateAfter(ins, j, x, y) ==
    RunFrom(SubSeq(ins, 1, j), 1,
            [InitialExecution(x, 0) EXCEPT !.vals = [@ EXCEPT !["y"] = y]])

OperandWords == {0, 3, 200, 255}

\* the values the Local holds behind the instructions i and j - 1 of the
\* front-end's block are the same
HoldsSameValueAt(name, i, j) ==
    \A x \in OperandWords, y \in OperandWords :
        StateAfter(previousInstructions, i, x, y).vals[name]
            = StateAfter(previousInstructions, j - 1, x, y).vals[name]

\* the earlier unconditional AND/OR whose output and input the replaced
\* instruction at j reads, within the lookahead window
EarlierBitOps(j) ==
    {i \in 2..(j - 1) :
        /\ j - i <= MaxCommonExpressionDistance
        /\ previousInstructions[i].kind = "op" /\ ~previousInstructions[i].cond
        /\ previousInstructions[i].op \in {"and", "or"}
        /\ IsLocal(previousInstructions[i].out)
        /\ previousInstructions[i].out \in Range(previousInstructions[j].args)
        /\ \E in \in Range(previousInstructions[i].args) :
              IsLocal(in) /\ in \in Range(previousInstructions[j].args)
                /\ in # previousInstructions[i].out}

\* the move at j is the one the laws give for the earlier operation at i
IsMoveOfLaw(i, j) ==
    LET first == previousInstructions[i]
        later == previousInstructions[j]
    IN  /\ instructions[j].out = later.out
        /\ IF later.op = first.op
           THEN instructions[j].args[1] = first.out
           ELSE instructions[j].args[1] \in Range(first.args) \cap Range(later.args)

\* C24: every replacement made for the monotone laws leaves the value
\* written by the replaced instruction unchanged for all operand values: the
\* replaced AND/OR reads the output and an input of an earlier unconditional
\* AND/OR within the lookahead window, it becomes the move the law gives,
\* and both Locals still hold at it the values they had at the earlier one.
C24_MonotoneLawsPreserveValues ==
    BitOpJustRun =>
        \A j \in DOMAIN instructions :
            IsMonotoneReplacement(j) =>
                /\ \E i \in EarlierBitOps(j) :
                      /\ IsMoveOfLaw(i, j)
                      /\ \A v \in Range(previousInstructions[j].args) :
                            HoldsSameValueAt(v.n, i, j)
                /\ \A x \in OperandWords, y \in OperandWords :
                      StateAfter(instructions, j, x, y).vals[instructions[j].out.n]
                          = StateAfter(previousInstructions, j, x, y).vals[instructions[j].out.n]

----------------------------------------------------------------------------
(***************************************************************************)
(* Claims on rewriteConstantSFUCall                                        *)
(***************************************************************************)
SFUCallRewritten ==
    passLog # <<>> /\ passLog[1].pass = "rewriteConstantSFUCall"

\* the call under the walker is one rewriteConstantSFUCall folds: an
\* unconditional move of a non-zero literal to the unit, nothing else
IsConstantSFUCall(instr) ==
    /\ instr.kind = "move" /\ IsRegister(instr.out) /\ IsSpecialFunctionsUnit(instr.out.n)
    /\ ~instr.cond /\ ~instr.setf /\ ~instr.unpack
    /\ IsLiteral(instr.args[1]) /\ instr.args[1].lit # 0

\* the WAIT_SFU placeholders and the readers of the result behind position it
DelaysBehind(ins, it) ==
    {i \in (it + 1)..Len(ins) : ins[i].kind = "nop" /\ ins[i].op = "WAIT_SFU"}

ReadersBehind(ins, it) ==
    {i \in (it + 1)..Len(ins) : ReadsRegister(ins[i], REG_SFU_OUT)}

SecondOf(S) == FirstOf(S \ {FirstOf(S)})

\* the instruction with the precomputed result in place of the result register
WithResultInPlace(instr, result) ==
    [instr EXCEPT !.args = [k \in DOMAIN instr.args |->
                               IF instr.args[k] = Reg(REG_SFU_OUT) THEN result
                               ELSE instr.args[k]]]

\* what the instruction writes to its output, the Parameters holding x
ResultOf(instr, x) ==
    LET st == InitialExecution(x, 0)
        a0 == ArgumentValue(st, instr.args[1])
        a1 == IF Len(instr.args) > 1 THEN ArgumentValue(st, instr.args[2]) ELSE 0
    IN  IF instr.kind = "op" THEN EvalOpCode(instr.op, a0, a1) ELSE a0

WritesSameValue(new, expected) ==
    /\ new.out = expected.out /\ new.cond = expected.cond /\ new.setf = expected.setf
    /\ \A x \in InputWords : ResultOf(new, x) = ResultOf(expected, x)

RECURSIVE WithoutPositions(_, _)
WithoutPositions(ins, S) ==
    IF S = {} THEN ins
    ELSE LET last == CHOOSE i \in S : \A j \in S : j <= i
         IN  WithoutPositions(RemoveAt(ins, last), S \ {last})

\* the result is read only behind the two placeholders of the call, as in
\* the sequences the front-end emits for a call of the unit
ReadsBehindDelays(ins, it) ==
    LET delays == DelaysBehind(ins, it)
    IN  Cardinality(delays) >= 2 =>
            ReadersBehind(ins, it) = ReadersBehind(ins, SecondOf(delays))

\* C25: when rewriteConstantSFUCall folds a call with a constant input it
\* erases the trigger and exactly the two WAIT_SFU placeholders following
\* it, and the first later instruction reading the result register writes
\* what it would compute from the precomputed result; every other
\* instruction stays in place and in order; if two placeholders or the
\* reading instruction are not found before the end of the block, a fatal
\* error is raised.
C25_SFUCallFoldedIntoReader ==
    (/\ SFUCallRewritten
     /\ IsConstantSFUCall(previousInstructions[passLog[1].it])
     /\ ReadsBehindDelays(previousInstructions, passLog[1].it)) =>
        LET old == previousInstructions
            it == passLog[1].it
            delays == DelaysBehind(old, it)
            readers == ReadersBehind(old, it)
        IN  IF Cardinality(delays) < 2 \/ readers = {}
            THEN passLog[1].thrown # NoThrow
            ELSE LET erased == {it, FirstOf(delays), SecondOf(delays)}
                     kept == WithoutPositions(old, erased)
                     reader == FirstOf(readers) - 3
                 IN  /\ passLog[1].thrown = NoThrow
                     /\ Len(instructions) = Len(kept)
                     /\ \A i \in DOMAIN kept : i # reader => instructions[i] = kept[i]
                     /\ WritesSameValue(instructions[reader],
                            WithResultInPlace(kept[reader],
                                PrecalculateSFU(old[it].out.n, old[it].args[1])))

----------------------------------------------------------------------------
(***************************************************************************)
(* Claims on the conservativeness of the dependency analysis               *)
(***************************************************************************)
\* the part is an identity value itself, or one multiplied by a constant or
\* left-shifted by a constant amount
IsDerivedFromId(part) == part.idDeco \/ IsIdTimesConstant(part)

\* what makes an object hazardous according to the claim
IsHazardousShape(obj) ==
    \/ ~obj.hasRanges \/ obj.ranges = <<>>
    \/ \E k \in DOMAIN obj.ranges :
          \/ obj.ranges[k].parts = <<>>
          \/ obj.ranges[k].op = "copy"
          \/ \E j \in DOMAIN obj.ranges[k].parts : ~IsDerivedFromId(obj.ranges[k].parts[j])

\* C26: an object with a read-write classification is reported hazard-free
\* only if it has at least one recorded address expression and every
\* recorded expression is an identity value, or an identity value multiplied
\* by or left-shifted by a constant, on a read or a write access; an object
\* without recorded ranges, with an empty expression set, with a copy access
\* or with an expression of any other shape is reported hazardous.
C26_HazardFreeOnlyForIdDerivedAddresses ==
    \A i \in DOMAIN memInfos :
        LET obj == memInfos[i] IN
        (IsReadWriteClassified(obj) /\ IsHazardousShape(obj)) =>
            MayHaveCrossWorkItemMemoryDependency(obj)

----------------------------------------------------------------------------
(***************************************************************************)
(* Claims on the walk of eliminateDeadCode                                 *)
(***************************************************************************)
DeadCodeWalk == passLog[Len(passLog)].walk

\* where the walker stands after iteration k of the walk: at the next
\* iteration's position, or at the end of the instructions after the last
WalkerAfter(walk, k) ==
    IF k < Len(walk) THEN walk[k + 1].it ELSE Len(instructions) + 1

InstructionsAfter(walk, k) ==
    IF k < Len(walk) THEN walk[k + 1].len ELSE Len(instructions)

\* C27: eliminateDeadCode terminates: each iteration of its walk either
\* erases an instruction or advances the walker, so a Method of n
\* instructions is walked in at most 2n iterations; the step back after
\* erasing a never-read instruction goes to the instruction directly in
\* front of the erased one, never in front of the label of the block, and
\* that instruction is examined by the next iteration.
C27_DeadCodeWalkTerminates ==
    DeadCodeJustRun =>
        /\ Len(DeadCodeWalk) <= 2 * Len(previousInstructions)
        /\ \A k \in DOMAIN DeadCodeWalk :
              LET s == DeadCodeWalk[k] IN
              /\ IF s.erased
                 THEN InstructionsAfter(DeadCodeWalk, k) = s.len - 1
                 ELSE /\ InstructionsAfter(DeadCodeWalk, k) = s.len
                      /\ WalkerAfter(DeadCodeWalk, k) = s.it + 1
              /\ s.erased /\ ~s.steppedBack => WalkerAfter(DeadCodeWalk, k) = s.it
              /\ s.steppedBack =>
                    /\ s.it > 1
                    /\ WalkerAfter(DeadCodeWalk, k) = s.it - 1
                    /\ k < Len(DeadCodeWalk)

\* a never-read instruction was erased, the walker stepped back and the
\* instruction in front of it, dead by then, was erased in the next iteration
C27_Witness ==
    /\ DeadCodeJustRun
    /\ \E k \in DOMAIN DeadCodeWalk :
          /\ DeadCodeWalk[k].steppedBack /\ DeadCodeWalk[k].it > 2
          /\ k < Len(DeadCodeWalk)
          /\ DeadCodeWalk[k + 1].erased /\ DeadCodeWalk[k + 1].steppedBack

----------------------------------------------------------------------------
(***************************************************************************)
(* Claims on the budget of isLocallyLimited                                *)
(***************************************************************************)
\* some block of the Method branches to itself or to a block in front of it
HasCycle(bbs) ==
    \E k \in DOMAIN bbs : \E i \in DOMAIN bbs[k] :
        /\ bbs[k][i].kind = "branch"
        /\ FindBasicBlock(bbs, bbs[k][i].target) \in 1..k

\* C28 (as claimed): isLocallyLimited terminates for every Method and every
\* threshold, cyclic ones included: every examined instruction takes a unit
\* of the one budget, so at most threshold + 1 instructions are examined in
\* total and the recursion is at most threshold deep.
C28_ScanWithinThreshold ==
    lastQuery.asked =>
        /\ lastQuery.examined <= lastQuery.threshold + 1
        /\ lastQuery.depth <= lastQuery.threshold

\* C28 (amended): isLocallyLimited terminates for every Method and every
\* threshold, cyclic ones included: besides the instruction in front of the
\* position, which is looked at once outside the budget, every examined
\* instruction takes a unit of the one budget shared by the main scan and
\* all recursive scans, so at most threshold + 2 instructions are examined
\* in total and the recursion is at most threshold + 1 deep.
C28_ScanWithinBudget ==
    lastQuery.asked =>
        /\ lastQuery.examined <= lastQuery.threshold + 1
              + (IF IsStartOfBlock(lastQuery.it) THEN 0 ELSE 1)
        /\ lastQuery.depth <= lastQuery.threshold + 1

\* a Method with a cycle was asked about, the scan went into a branch
\* target and came back, and the whole budget was used
C28_Witness ==
    /\ lastQuery.asked
    /\ HasCycle(basicBlocks)
    /\ lastQuery.depth >= 1
    /\ lastQuery.threshold >= 1
    /\ lastQuery.examined = lastQuery.threshold + 2

----------------------------------------------------------------------------
(***************************************************************************)
(* Claims about the neighbours of a block                                  *)
(***************************************************************************)

\* C30: asked about a block of the Method, getPreviousBlock returns the block
\* immediately in front of it (none for the first block), getNextBlockAfter
\* the block immediately behind it (none for the last block), and the list
\* of blocks is left as it was
C30_NeighboursInBlockOrder ==
    lastNeighbours.asked =>
        /\ ~lastNeighbours.crashed
        /\ lastNeighbours.previous = lastNeighbours.block - 1
        /\ lastNeighbours.next = (IF lastNeighbours.block = Len(lastNeighbours.before)
                                  THEN 0 ELSE lastNeighbours.block + 1)
        /\ basicBlocks = lastNeighbours.before

=========================================================================
